---- MODULE Spec2Model ----
(***************************************************************************)
(* Pulse real-time messaging core: relational store (conversations,        *)
(* members, messages, per-user message statuses), the socket gateway       *)
(* (handshake, rooms, inbound event handlers), the chat:messages bus and   *)
(* its consumer.  Every handler is split at its await points; a database   *)
(* transaction becomes visible in one step, at its commit.                 *)
(***************************************************************************)
EXTENDS Integers, Sequences, FiniteSets, TLC

\* ---------------------------------------------------------------- bounds
NumUsers == 3
MaxConvs == 2
MaxSends == 2
MaxTime == 2
MaxSeconds == 62
MaxHistory == 4
MaxLimit == 3
ExampleMessages == 25
MaxUploads == 2
MaxNameLen == 3
MaxTasks == 2
NumConns == 2
NumInstances == 2

\* ------------------------------------------------------------- constants
\* a null column / an undefined field
NULL == 0
\* EX of the presence key, in seconds
PRESENCE_TTL == 60

\* findByConversation(..., limit: number = 20)
DEFAULT_LIMIT == 20

\* MediaService: file size limits in bytes, and the validity of an upload URL in seconds
MAX_IMAGE_SIZE == 5242880
MAX_VIDEO_SIZE == 20971520
UPLOAD_EXPIRES_IN == 300

Users == 1..NumUsers
Conns == 1..NumConns
Instances == 1..NumInstances
ConvIds == 1..MaxConvs
MsgIds == 1..MaxSends

VARIABLES
    now,            \* the wall clock read by new Date() and by @default(now())
    users,          \* User rows: [Users -> [lastSeen, name]]
    conversations,  \* Conversation rows, id = position
    members,        \* ConversationMember rows
    messages,       \* Message rows, id = position (commit order)
    statuses,       \* MessageStatus rows
    tasks,          \* handler invocations suspended at an await
    sendSeq,        \* number of send requests received so far
    sendOrder,      \* history: message id -> arrival number of its send request
    supplied,       \* history: message id -> the mediaUrl its send request carried
    conns,          \* sockets: [Conns -> [state, userId, token, hs, dc, idle, instance]]
    rooms,          \* socket.io rooms: [Conns -> set of conversation ids]
    presence,       \* presence keys: [Users -> remaining TTL, 0 = no key]
    bus,            \* chat:messages, per subscribed instance: tuples not yet handed over
    inflight,       \* per instance: handleRedisMessage invocations awaiting findUnique
    published,      \* history: every tuple published on chat:messages
    inbox,          \* per socket: the message_received events it got, in order
    consumed,       \* history, per instance: message ids whose tuple its consumer has handled
    signedUrls,     \* history: the signed upload URLs asked of the blob store, in order
    emitted,        \* the server-originated event emitted by the last step, if any
    reply           \* the callback reply or REST response sent by the last step, if any

storeVars == <<users, conversations, members, messages, statuses>>
gatewayVars == <<conns, rooms, presence>>
\* the bus and the blob store
busVars == <<bus, inflight, published, inbox, consumed, signedUrls>>
vars == <<now, users, conversations, members, messages, statuses, tasks, sendSeq,
          sendOrder, supplied, conns, rooms, presence, bus, inflight, published, inbox,
          consumed, signedUrls, emitted, reply>>

\* ---------------------------------------------------------------- helpers
RECURSIVE SortedSeq(_)
SortedSeq(S) ==
    IF S = {} THEN <<>>
    ELSE LET m == CHOOSE x \in S : \A y \in S : x <= y
         IN <<m>> \o SortedSeq(S \ {m})

Range(s) == {s[i] : i \in 1..Len(s)}

\* all lists of 1..n user ids
UserIdLists(n) == UNION {[1..len -> Users] : len \in 1..n}

\* sockets are spread over the backend instances; a socket stays on the instance that
\* accepted it
HomeInstance(k) == ((k - 1) % NumInstances) + 1

\* ------------------------------------------------------ relational store
\* prisma.conversation.findUnique({where: {id}})
ConvExists(c) == c \in 1..Len(conversations)

\* include: {members: true}: the member rows of a conversation, as user ids
MemberIds(c) == {m.userId : m \in {r \in members : r.conversationId = c}}

\* ConversationsService.validateMembership
validateMembership(c, u) ==
    \E m \in members : m.conversationId = c /\ m.userId = u

\* prisma.message.findUnique({where: {id}})
MsgExists(m) == m \in 1..Len(messages)

\* the rows of MessageStatus for one message
StatusRows(m) == {i \in 1..Len(statuses) : statuses[i].messageId = m}

\* -------------------------------------------------------------- payloads
\* send_message / POST /messages bodies
SendBodies ==
    { [type |-> "text", content |-> "hi", mediaUrl |-> ""],
      [type |-> "image", content |-> "", mediaUrl |-> "p"],
      [type |-> "text", content |-> "", mediaUrl |-> ""] }

\* callback replies of the socket handlers and responses of the REST routes (conn 0)
NoReply == [conn |-> 0, event |-> "none", success |-> FALSE, error |-> "", id |-> 0]
ErrReply(k, ev, e) == [conn |-> k, event |-> ev, success |-> FALSE, error |-> e, id |-> 0]
OkReply(k, ev, x) == [conn |-> k, event |-> ev, success |-> TRUE, error |-> "", id |-> x]
NoEmit == [event |-> "none", conversationId |-> 0, to |-> {}, userId |-> 0, messageIds |-> {}, at |-> NULL]

\* client.userId is set
Authenticated(k) == conns[k].userId # NULL
\* the socket is connected: its events reach the handlers
Open(k) == conns[k].state = "open"

\* the backend instance whose gateway holds socket k
InstanceOf(k) == conns[k].instance

\* this.server.to(`conversation:${c}`) on the instance that owns socket k
RoomOn(i, c) == {j \in Conns : InstanceOf(j) = i /\ Open(j) /\ c \in rooms[j]}

Init ==
    /\ now = 1
    /\ users = [u \in Users |-> [lastSeen |-> NULL, name |-> "A"]]
    /\ conversations = <<>>
    /\ members = {}
    /\ messages = <<>>
    /\ statuses = <<>>
    /\ tasks = {}
    /\ sendSeq = 0
    /\ sendOrder = <<>>
    /\ supplied = <<>>
    /\ conns = [k \in Conns |-> [state |-> "idle", userId |-> NULL, token |-> 0,
                                 hs |-> "none", dc |-> "none", idle |-> 0,
                                 instance |-> HomeInstance(k)]]
    /\ rooms = [k \in Conns |-> {}]
    /\ presence = [u \in Users |-> 0]
    /\ bus = [i \in Instances |-> <<>>]
    /\ inflight = [i \in Instances |-> {}]
    /\ published = <<>>
    /\ inbox = [k \in Conns |-> <<>>]
    /\ consumed = [i \in Instances |-> {}]
    /\ signedUrls = << >>
    /\ emitted = NoEmit
    /\ reply = NoReply

\* ------------------------------------------------------------------ clock
\* one second passes: presence keys lose a second of their TTL and expire at 0; idle is
\* the time since a connection's last heartbeat or handshake presence write
Advance ==
    /\ now' = now + 1
    /\ presence' = [u \in Users |-> IF presence[u] > 0 THEN presence[u] - 1 ELSE 0]
    /\ conns' = [k \in Conns |->
          IF Open(k) /\ conns[k].hs \in {"ack", "done"}
          THEN [conns[k] EXCEPT !.idle = @ + 1] ELSE conns[k]]
    /\ UNCHANGED <<storeVars, tasks, sendSeq, sendOrder, supplied, rooms, busVars>>
    /\ emitted' = NoEmit
    /\ reply' = NoReply

Tick ==
    /\ now < MaxTime
    /\ Advance

\* the same step, over the span of a presence key's life
Second ==
    /\ now < MaxSeconds
    /\ Advance

\* --------------------------------------------- ConversationsService.create
\* the synchronous checks on the dto
CreateDtoError(userIds, isGroup, name) ==
    IF isGroup /\ name = "" THEN "Group conversations must have a name"
    ELSE IF isGroup /\ Len(userIds) < 2 THEN "Group conversations must have at least 2 members"
    ELSE IF ~isGroup /\ Len(userIds) # 1 THEN "1-to-1 conversations must have exactly 1 other user"
    ELSE ""

\* prisma.user.findMany({where: {id: {in: userIds}}}): one row per distinct persisted id
UsersFound(userIds) == Range(userIds) \cap Users

\* findFirst({where: {isGroup: false, members: {every: {userId: {in: [a, b]}}}}})
DirectCandidates(a, b) ==
    {c \in 1..Len(conversations) :
        ~conversations[c].isGroup /\ MemberIds(c) \subseteq {a, b}}

\* a comparison that does not sort the target ids
IsThePairUnsorted(c, a, b) ==
    /\ Cardinality({r \in members : r.conversationId = c}) = 2
    /\ SortedSeq(MemberIds(c)) = <<a, b>>

\* the check on the conversation found: two members, and the sorted ids are the pair
IsThePair(c, a, b) ==
    /\ Cardinality({r \in members : r.conversationId = c}) = 2
    /\ SortedSeq(MemberIds(c)) = (IF a <= b THEN <<a, b>> ELSE <<b, a>>)

\* the member rows of the nested create: the creator first, then userIds
NewMemberRows(c, u, userIds, isGroup) ==
    <<[conversationId |-> c, userId |-> u, role |-> IF isGroup THEN "admin" ELSE "member"]>>
    \o [i \in 1..Len(userIds) |-> [conversationId |-> c, userId |-> userIds[i], role |-> "member"]]

\* a member table without the unique key
UniqueMembersNoKey(rows) == TRUE

\* @@unique([conversationId, userId]): no two rows of the list name the same user
UniqueMembers(rows) ==
    \A i, j \in 1..Len(rows) : rows[i].userId = rows[j].userId => i = j

\* POST /conversations arrives; validation and the users query
StartCreate(u, userIds, isGroup, name) ==
    /\ Cardinality(tasks) < MaxTasks
    /\ LET e == CreateDtoError(userIds, isGroup, name) IN
       IF e # ""
       THEN /\ reply' = ErrReply(0, "create", e)
            /\ UNCHANGED tasks
       ELSE IF Cardinality(UsersFound(userIds)) # Len(userIds)
       THEN /\ reply' = ErrReply(0, "create", "One or more users not found")
            /\ UNCHANGED tasks
       ELSE /\ tasks' = tasks \cup {[kind |-> "create", user |-> u, userIds |-> userIds,
                                      isGroup |-> isGroup, name |-> name,
                                      pc |-> IF isGroup THEN "insert" ELSE "lookup"]}
            /\ reply' = NoReply
    /\ UNCHANGED <<now, storeVars, sendSeq, sendOrder, supplied, gatewayVars, busVars>>
    /\ emitted' = NoEmit

\* a lookup that hands back any conversation holding both users
CreateLookupContaining(t) ==
    /\ t.kind = "create" /\ t.pc = "lookup"
    /\ LET a == t.user
           b == t.userIds[1]
           cands == {c \in 1..Len(conversations) : {a, b} \subseteq MemberIds(c)}
       IN \/ /\ cands = {}
             /\ tasks' = (tasks \ {t}) \cup {[t EXCEPT !.pc = "insert"]}
             /\ reply' = NoReply
          \/ \E c \in cands :
                /\ tasks' = tasks \ {t}
                /\ reply' = OkReply(0, "create", c)
    /\ UNCHANGED <<now, storeVars, sendSeq, sendOrder, supplied, gatewayVars, busVars>>
    /\ emitted' = NoEmit

\* the findFirst of the 1-to-1 branch returns, an existing conversation is handed back
CreateLookup(t) ==
    /\ t.kind = "create" /\ t.pc = "lookup"
    /\ LET a == t.user
           b == t.userIds[1]
           cands == DirectCandidates(a, b)
       IN \/ /\ cands = {}
             /\ tasks' = (tasks \ {t}) \cup {[t EXCEPT !.pc = "insert"]}
             /\ reply' = NoReply
          \/ \E c \in cands :
                IF IsThePair(c, a, b)
                THEN /\ tasks' = tasks \ {t}
                     /\ reply' = OkReply(0, "create", c)
                ELSE /\ tasks' = (tasks \ {t}) \cup {[t EXCEPT !.pc = "insert"]}
                     /\ reply' = NoReply
    /\ UNCHANGED <<now, storeVars, sendSeq, sendOrder, supplied, gatewayVars, busVars>>
    /\ emitted' = NoEmit

\* prisma.conversation.create with its nested member rows (one statement, atomic)
CreateInsert(t) ==
    /\ t.kind = "create" /\ t.pc = "insert"
    /\ Len(conversations) < MaxConvs
    /\ LET c == Len(conversations) + 1
           rows == NewMemberRows(c, t.user, t.userIds, t.isGroup)
       IN IF UniqueMembers(rows)
          THEN /\ conversations' = Append(conversations,
                     [isGroup |-> t.isGroup,
                      name |-> IF t.isGroup THEN t.name ELSE "",
                      createdAt |-> now, updatedAt |-> now])
               /\ members' = members \cup Range(rows)
               /\ reply' = OkReply(0, "create", c)
          ELSE /\ UNCHANGED <<conversations, members>>
               /\ reply' = ErrReply(0, "create", "Unique constraint failed")
    /\ tasks' = tasks \ {t}
    /\ UNCHANGED <<now, users, messages, statuses, sendSeq, sendOrder, supplied, gatewayVars, busVars>>
    /\ emitted' = NoEmit

\* ------------------------------------------------- MessagesService.send
\* the payload checks of handleSendMessage
SendPayloadError(c, body) ==
    IF c = NULL \/ body.type = "" THEN "conversationId and type are required"
    ELSE IF body.type \notin {"text", "image", "video"} THEN "type must be text, image, or video"
    ELSE IF body.type = "text" /\ body.content = "" THEN "content is required for text messages"
    ELSE IF body.type \in {"image", "video"} /\ body.mediaUrl = ""
         THEN "mediaUrl is required for media messages"
    ELSE ""

\* the class-validator rules of SendMessageDto (POST /messages)
SendDtoError(c, body) ==
    IF c = NULL THEN "conversationId should not be empty"
    ELSE IF body.content = "" THEN "content should not be empty"
    ELSE IF body.type \notin {"text", "image", "video"} THEN "type must be one of text, image, video"
    ELSE ""

SendTask(via, k, u, c, body, seq) ==
    [kind |-> "send", via |-> via, conn |-> k, user |-> u, conv |-> c, body |-> body,
     seq |-> seq, pc |-> "load", members |-> <<>>, createdAt |-> NULL,
     deliveredAt |-> NULL, updatedAt |-> NULL, id |-> NULL]

\* send_message arrives on socket k
StartSendMessage(k, c, body) ==
    /\ Open(k)
    /\ Cardinality(tasks) < MaxTasks
    /\ sendSeq < MaxSends
    /\ IF ~Authenticated(k)
       THEN /\ reply' = ErrReply(k, "send_message", "Not authenticated")
            /\ UNCHANGED <<tasks, sendSeq>>
       ELSE IF SendPayloadError(c, body) # ""
       THEN /\ reply' = ErrReply(k, "send_message", SendPayloadError(c, body))
            /\ UNCHANGED <<tasks, sendSeq>>
       ELSE /\ sendSeq' = sendSeq + 1
            /\ tasks' = tasks \cup {SendTask("ws", k, conns[k].userId, c, body, sendSeq + 1)}
            /\ reply' = NoReply
    /\ UNCHANGED <<now, storeVars, sendOrder, supplied, gatewayVars, busVars>>
    /\ emitted' = NoEmit

\* POST /messages arrives for the authenticated user u
StartPostMessage(u, c, body) ==
    /\ Cardinality(tasks) < MaxTasks
    /\ sendSeq < MaxSends
    /\ IF SendDtoError(c, body) # ""
       THEN /\ reply' = ErrReply(0, "POST /messages", SendDtoError(c, body))
            /\ UNCHANGED <<tasks, sendSeq>>
       ELSE /\ sendSeq' = sendSeq + 1
            /\ tasks' = tasks \cup {SendTask("rest", 0, u, c, body, sendSeq + 1)}
            /\ reply' = NoReply
    /\ UNCHANGED <<now, storeVars, sendOrder, supplied, gatewayVars, busVars>>
    /\ emitted' = NoEmit

SendEvent(t) == IF t.via = "ws" THEN "send_message" ELSE "POST /messages"

\* a load that does not look for the sender among the members
SendLoadAnySender(t) ==
    /\ t.kind = "send" /\ t.pc = "load"
    /\ IF ~ConvExists(t.conv)
       THEN /\ tasks' = tasks \ {t}
            /\ reply' = ErrReply(t.conn, SendEvent(t), "Conversation not found")
       ELSE /\ tasks' = (tasks \ {t}) \cup
                   {[t EXCEPT !.pc = "insert", !.members = SortedSeq(MemberIds(t.conv))]}
            /\ reply' = NoReply
    /\ UNCHANGED <<now, storeVars, sendSeq, sendOrder, supplied, gatewayVars, busVars>>
    /\ emitted' = NoEmit

\* conversation.findUnique with its members; not-found and forbidden
SendLoad(t) ==
    /\ t.kind = "send" /\ t.pc = "load"
    /\ IF ~ConvExists(t.conv)
       THEN /\ tasks' = tasks \ {t}
            /\ reply' = ErrReply(t.conn, SendEvent(t), "Conversation not found")
       ELSE IF t.user \notin MemberIds(t.conv)
       THEN /\ tasks' = tasks \ {t}
            /\ reply' = ErrReply(t.conn, SendEvent(t), "You are not a member of this conversation")
       ELSE /\ tasks' = (tasks \ {t}) \cup
                   {[t EXCEPT !.pc = "insert", !.members = SortedSeq(MemberIds(t.conv))]}
            /\ reply' = NoReply
    /\ UNCHANGED <<now, storeVars, sendSeq, sendOrder, supplied, gatewayVars, busVars>>
    /\ emitted' = NoEmit

\* tx.message.create: createdAt DateTime @default(now())
SendInsert(t) ==
    /\ t.kind = "send" /\ t.pc = "insert"
    /\ tasks' = (tasks \ {t}) \cup {[t EXCEPT !.pc = "status", !.createdAt = now]}
    /\ UNCHANGED <<now, storeVars, sendSeq, sendOrder, supplied, gatewayVars, busVars>>
    /\ emitted' = NoEmit
    /\ reply' = NoReply

\* statusData is built (new Date() for the sender's row) and handed to createMany
SendStatus(t) ==
    /\ t.kind = "send" /\ t.pc = "status"
    /\ tasks' = (tasks \ {t}) \cup {[t EXCEPT !.pc = "update", !.deliveredAt = now]}
    /\ UNCHANGED <<now, storeVars, sendSeq, sendOrder, supplied, gatewayVars, busVars>>
    /\ emitted' = NoEmit
    /\ reply' = NoReply

\* tx.conversation.update({data: {updatedAt: new Date()}}): the timestamp is taken and
\* the statement is sent
SendUpdate(t) ==
    /\ t.kind = "send" /\ t.pc = "update"
    /\ tasks' = (tasks \ {t}) \cup {[t EXCEPT !.pc = "lock", !.updatedAt = now]}
    /\ UNCHANGED <<now, storeVars, sendSeq, sendOrder, supplied, gatewayVars, busVars>>
    /\ emitted' = NoEmit
    /\ reply' = NoReply

\* createMany that leaves the sender's own row out
StatusDataOthersOnly(t, id) ==
    SelectSeq([i \in 1..Len(t.members) |->
                  [messageId |-> id, userId |-> t.members[i],
                   deliveredAt |-> NULL, readAt |-> NULL]],
              LAMBDA r : r.userId # t.user)

\* the update statement runs in the database: it takes the conversation's row lock,
\* which a transaction that has updated the row holds until it ends
SendLock(t) ==
    /\ t.kind = "send" /\ t.pc = "lock"
    /\ ~\E o \in tasks : o.kind = "send" /\ o.conv = t.conv /\ o.pc = "commit"
    /\ tasks' = (tasks \ {t}) \cup {[t EXCEPT !.pc = "commit"]}
    /\ UNCHANGED <<now, storeVars, sendSeq, sendOrder, supplied, gatewayVars, busVars>>
    /\ emitted' = NoEmit
    /\ reply' = NoReply

\* the rows of createMany: one per member loaded, the sender's delivered at once
StatusData(t, id) ==
    [i \in 1..Len(t.members) |->
        [messageId |-> id, userId |-> t.members[i],
         deliveredAt |-> IF t.members[i] = t.user THEN t.deliveredAt ELSE NULL,
         readAt |-> NULL]]

\* the row of tx.message.create: conversationId, senderId, content, type
MessageRow(t) ==
    [conversationId |-> t.conv, senderId |-> t.user, content |-> t.body.content,
     type |-> t.body.type, mediaUrl |-> "", createdAt |-> t.createdAt]

\* a commit that hands every message, whichever way it came in, on to the publish step
SendCommitThenPublish(t) ==
    /\ t.kind = "send" /\ t.pc = "commit"
    /\ LET id == Len(messages) + 1 IN
       /\ messages' = Append(messages, MessageRow(t))
       /\ statuses' = statuses \o StatusData(t, id)
       /\ conversations' = [conversations EXCEPT ![t.conv].updatedAt = t.updatedAt]
       /\ sendOrder' = Append(sendOrder, t.seq)
       /\ supplied' = Append(supplied, t.body.mediaUrl)
       /\ tasks' = (tasks \ {t}) \cup {[t EXCEPT !.pc = "publish", !.id = id]}
       /\ reply' = NoReply
    /\ UNCHANGED <<now, users, members, sendSeq, gatewayVars, busVars>>
    /\ emitted' = NoEmit

\* the transaction commits: message, status rows and updatedAt become visible together
SendCommit(t) ==
    /\ t.kind = "send" /\ t.pc = "commit"
    /\ LET id == Len(messages) + 1 IN
       /\ messages' = Append(messages, MessageRow(t))
       /\ statuses' = statuses \o StatusData(t, id)
       /\ conversations' = [conversations EXCEPT ![t.conv].updatedAt = t.updatedAt]
       /\ sendOrder' = Append(sendOrder, t.seq)
       /\ supplied' = Append(supplied, t.body.mediaUrl)
       /\ IF t.via = "ws"
          THEN /\ tasks' = (tasks \ {t}) \cup {[t EXCEPT !.pc = "publish", !.id = id]}
               /\ reply' = NoReply
          ELSE /\ tasks' = tasks \ {t}
               /\ reply' = OkReply(0, "POST /messages", id)
    /\ UNCHANGED <<now, users, members, sendSeq, gatewayVars, busVars>>
    /\ emitted' = NoEmit

\* writes made one by one outside a transaction: a failure after the insert leaves the
\* message row behind
SendRollbackPartial(t) ==
    /\ t.kind = "send" /\ t.pc \in {"insert", "status", "update", "lock", "commit"}
    /\ tasks' = tasks \ {t}
    /\ reply' = ErrReply(t.conn, SendEvent(t), "transaction failed")
    /\ IF t.pc = "insert"
       THEN UNCHANGED <<messages, sendOrder, supplied>>
       ELSE /\ messages' = Append(messages, MessageRow(t))
            /\ sendOrder' = Append(sendOrder, t.seq)
            /\ supplied' = Append(supplied, t.body.mediaUrl)
    /\ UNCHANGED <<now, users, conversations, members, statuses, sendSeq, gatewayVars, busVars>>
    /\ emitted' = NoEmit

\* a write of the transaction fails: everything is rolled back, the caller gets the error
SendRollback(t) ==
    /\ t.kind = "send" /\ t.pc \in {"insert", "status", "update", "lock", "commit"}
    /\ tasks' = tasks \ {t}
    /\ reply' = ErrReply(t.conn, SendEvent(t), "transaction failed")
    /\ UNCHANGED <<now, storeVars, sendSeq, sendOrder, supplied, gatewayVars, busVars>>
    /\ emitted' = NoEmit

\* a tuple whose conversationId and senderId are taken from the wrong fields
RedisPayloadSwapped(t) ==
    [messageId |-> t.id, conversationId |-> MessageRow(t).senderId,
     senderId |-> MessageRow(t).conversationId]

\* redisPayload of handleSendMessage, from the message send returned
RedisPayload(t) ==
    [messageId |-> t.id, conversationId |-> MessageRow(t).conversationId,
     senderId |-> MessageRow(t).senderId]

\* an emit on the sender's instance only, no bus between the instances
SendPublishLocal(t) ==
    /\ t.kind = "send" /\ t.pc = "publish"
    /\ bus' = [bus EXCEPT ![InstanceOf(t.conn)] = Append(@, RedisPayload(t))]
    /\ published' = Append(published, RedisPayload(t))
    /\ tasks' = (tasks \ {t}) \cup {[t EXCEPT !.pc = "reply"]}
    /\ UNCHANGED <<now, storeVars, sendSeq, sendOrder, supplied, gatewayVars, inflight, inbox, consumed, signedUrls>>
    /\ emitted' = NoEmit
    /\ reply' = NoReply

\* redisService.publishMessage: every subscribed instance gets the tuple
SendPublish(t) ==
    /\ t.kind = "send" /\ t.pc = "publish"
    /\ bus' = [i \in Instances |-> Append(bus[i], RedisPayload(t))]
    /\ published' = Append(published, RedisPayload(t))
    /\ tasks' = (tasks \ {t}) \cup {[t EXCEPT !.pc = "reply"]}
    /\ UNCHANGED <<now, storeVars, sendSeq, sendOrder, supplied, gatewayVars, inflight, inbox, consumed, signedUrls>>
    /\ emitted' = NoEmit
    /\ reply' = NoReply

\* a publish that throws although the subscribers got the tuple
SendPublishFailSent(t) ==
    /\ t.kind = "send" /\ t.pc = "publish"
    /\ tasks' = tasks \ {t}
    /\ reply' = ErrReply(t.conn, "send_message", "publish failed")
    /\ bus' = [i \in Instances |-> Append(bus[i], RedisPayload(t))]
    /\ UNCHANGED <<now, storeVars, sendSeq, sendOrder, supplied, gatewayVars, inflight,
                   published, inbox, consumed, signedUrls>>
    /\ emitted' = NoEmit

\* the publish throws: caught, success:false
SendPublishFail(t) ==
    /\ t.kind = "send" /\ t.pc = "publish"
    /\ tasks' = tasks \ {t}
    /\ reply' = ErrReply(t.conn, "send_message", "publish failed")
    /\ UNCHANGED <<now, storeVars, sendSeq, sendOrder, supplied, gatewayVars, busVars>>
    /\ emitted' = NoEmit

\* a handler that acknowledges as soon as the message is persisted
SendReplyBeforePublish(t) ==
    /\ t.kind = "send" /\ t.pc \in {"publish", "reply"}
    /\ tasks' = tasks \ {t}
    /\ reply' = OkReply(t.conn, "send_message", t.id)
    /\ UNCHANGED <<now, storeVars, sendSeq, sendOrder, supplied, gatewayVars, busVars>>
    /\ emitted' = NoEmit

\* return {success: true, messageId}
SendReply(t) ==
    /\ t.kind = "send" /\ t.pc = "reply"
    /\ tasks' = tasks \ {t}
    /\ reply' = OkReply(t.conn, "send_message", t.id)
    /\ UNCHANGED <<now, storeVars, sendSeq, sendOrder, supplied, gatewayVars, busVars>>
    /\ emitted' = NoEmit

\* ------------------------------------------------------- history read
\* a request without ?cursor=
NoCursor == << >>

\* Date.prototype.toISOString: the instant to the millisecond, which is the precision
\* of the stored createdAt
toISOString(d) == << d >>

\* new Date(cursor) of such a string
ParseDate(s) == s[1]

\* findMany's orderBy createdAt desc over the rows of S; rows of equal createdAt come
\* in either order
RECURSIVE DescByCreatedAt(_)
DescByCreatedAt(S) ==
    IF S = {} THEN { << >> }
    ELSE LET tops == {m \in S : \A o \in S : messages[o].createdAt <= messages[m].createdAt}
         IN UNION { { <<m>> \o r : r \in DescByCreatedAt(S \ {m}) } : m \in tops }

\* a query that keeps the row at the cursor (lte instead of lt)
OlderThanInclusive(c, cursor) ==
    {m \in 1..Len(messages) :
        /\ messages[m].conversationId = c
        /\ cursor # NoCursor => messages[m].createdAt <= ParseDate(cursor)}

\* where: {conversationId, createdAt: {lt: new Date(cursor)}}, the latter only with a cursor
OlderThan(c, cursor) ==
    {m \in 1..Len(messages) :
        /\ messages[m].conversationId = c
        /\ cursor # NoCursor => messages[m].createdAt < ParseDate(cursor)}

\* take: limit
Take(seq, limit) == SubSeq(seq, 1, IF Len(seq) < limit THEN Len(seq) ELSE limit)

\* the value findByConversation returns for the rows found
PageOf(rows, limit) ==
    [conn |-> 0, event |-> "GET /messages", success |-> TRUE, error |-> "", id |-> Len(rows),
     messages |-> rows,
     nextCursor |-> IF Len(rows) = limit
                    THEN toISOString(messages[rows[Len(rows)]].createdAt) ELSE NoCursor,
     hasMore |-> Len(rows) = limit]

\* the responses findByConversation can give to user u
PageResponses(u, c, cursor, limit) ==
    IF ~ConvExists(c) THEN {ErrReply(0, "GET /messages", "Conversation not found")}
    ELSE IF u \notin MemberIds(c)
    THEN {ErrReply(0, "GET /messages", "You are not a member of this conversation")}
    ELSE {PageOf(Take(rows, limit), limit) : rows \in DescByCreatedAt(OlderThan(c, cursor))}

\* GET /messages/:conversationId: not found, forbidden, or a page; nothing is written
findByConversation(u, c, cursor, limit) ==
    /\ reply' \in PageResponses(u, c, cursor, limit)
    /\ UNCHANGED <<now, storeVars, tasks, sendSeq, sendOrder, supplied, gatewayVars, busVars>>
    /\ emitted' = NoEmit

\* a client starts reading the history of c from the newest message, limit rows a page
StartPager(u, c, limit) ==
    /\ tasks = {}
    /\ tasks' = {[kind |-> "pager", user |-> u, conv |-> c, limit |-> limit,
                  cursor |-> NoCursor, seen |-> << >>, calls |-> 0, pc |-> "more"]}
    /\ reply' = NoReply
    /\ UNCHANGED <<now, storeVars, sendSeq, sendOrder, supplied, gatewayVars, busVars>>
    /\ emitted' = NoEmit

\* the client calls GET /messages/:c with the cursor it holds and keeps the page; it
\* goes on with the returned nextCursor while hasMore is true
PagerStep(t) ==
    /\ t.kind = "pager" /\ t.pc = "more"
    /\ \E r \in PageResponses(t.user, t.conv, t.cursor, t.limit) :
          /\ reply' = r
          /\ tasks' = (tasks \ {t}) \cup
                {IF r.success
                 THEN [t EXCEPT !.cursor = r.nextCursor, !.seen = t.seen \o r.messages,
                                !.calls = t.calls + 1,
                                !.pc = IF r.hasMore THEN "more" ELSE "done"]
                 ELSE [t EXCEPT !.calls = t.calls + 1, !.pc = "failed"]}
    /\ UNCHANGED <<now, storeVars, sendSeq, sendOrder, supplied, gatewayVars, busVars>>
    /\ emitted' = NoEmit

\* ------------------------------------------------------- media uploads
ALLOWED_IMAGE_TYPES == {"image/jpeg", "image/png", "image/gif", "image/webp"}
ALLOWED_VIDEO_TYPES == {"video/mp4", "video/quicktime", "video/webm"}

\* getMediaType: image, video, or null (here "")
getMediaType(mimeType) ==
    IF mimeType \in ALLOWED_IMAGE_TYPES THEN "image"
    ELSE IF mimeType \in ALLOWED_VIDEO_TYPES THEN "video"
    ELSE ""

\* a size check that also refuses a file of exactly the limit
validateFileSizeBelow(mediaType, fileSize) ==
    IF mediaType = "image" /\ fileSize >= MAX_IMAGE_SIZE
    THEN "Image size exceeds maximum allowed size of 5MB"
    ELSE IF mediaType = "video" /\ fileSize >= MAX_VIDEO_SIZE
    THEN "Video size exceeds maximum allowed size of 20MB"
    ELSE ""

\* validateFileSize: the message of the BadRequestException thrown, "" if none
validateFileSize(mediaType, fileSize) ==
    IF mediaType = "image" /\ fileSize > MAX_IMAGE_SIZE
    THEN "Image size exceeds maximum allowed size of 5MB"
    ELSE IF mediaType = "video" /\ fileSize > MAX_VIDEO_SIZE
    THEN "Video size exceeds maximum allowed size of 20MB"
    ELSE ""

\* a file name is a sequence of characters, a path a sequence of pieces: the fixed
\* words, the ids and the timestamp in decimal (none of which holds a "/"), and the
\* characters of the sanitized name.  [a-zA-Z0-9._-], by one member or more of each
\* class
SafeChars == {"a", "Z", "7", ".", "_", "-"}

\* fileName.split('/').pop(): what follows the last "/", the whole name if there is none
LastComponent(fileName) ==
    LET slashes == {i \in 1..Len(fileName) : fileName[i] = "/"} IN
    IF slashes = {} THEN fileName
    ELSE SubSeq(fileName, (CHOOSE i \in slashes : \A j \in slashes : j <= i) + 1, Len(fileName))

\* a sanitizer that only takes the base name and replaces nothing
sanitizeFileNameBaseOnly(fileName) ==
    IF LastComponent(fileName) = << >> THEN fileName ELSE LastComponent(fileName)

\* sanitizeFileName: the base name, or the whole name when the base name is empty,
\* with every character outside [a-zA-Z0-9._-] replaced by "_"
sanitizeFileName(fileName) ==
    LET baseName == IF LastComponent(fileName) = << >> THEN fileName
                    ELSE LastComponent(fileName) IN
    [i \in 1..Len(baseName) |-> IF baseName[i] \in SafeChars THEN baseName[i] ELSE "_"]

\* generateFilePath: conversations/{conversationId}/{userId}_{timestamp}_{sanitized}
generateFilePath(conversationId, userId, timestamp, fileName) ==
    <<"conversations", "/", ToString(conversationId), "/", ToString(userId), "_",
      ToString(timestamp), "_">> \o sanitizeFileName(fileName)

\* the class-validator rules of RequestUploadUrlDto
UploadDtoError(c, fileName, mimeType, fileSize) ==
    IF c = NULL THEN "conversationId should not be empty"
    ELSE IF fileName = << >> THEN "fileName should not be empty"
    ELSE IF mimeType \notin ALLOWED_IMAGE_TYPES \cup ALLOWED_VIDEO_TYPES
    THEN "mimeType must be one of the following values"
    ELSE IF fileSize < 1 THEN "fileSize must not be less than 1"
    ELSE IF fileSize > MAX_VIDEO_SIZE THEN "fileSize must not be greater than 20971520"
    ELSE ""

\* MediaService.requestUploadUrl is called: the membership check
requestUploadUrl(u, c, fileName, mimeType, fileSize) ==
    /\ Cardinality(tasks) < MaxTasks
    /\ IF ~validateMembership(c, u)
       THEN /\ reply' = ErrReply(0, "upload-url", "You are not a member of this conversation")
            /\ UNCHANGED tasks
       ELSE /\ tasks' = tasks \cup {[kind |-> "upload", user |-> u, conv |-> c,
                                      fileName |-> fileName,
                                      mimeType |-> mimeType, fileSize |-> fileSize,
                                      pc |-> "classify"]}
            /\ reply' = NoReply
    /\ UNCHANGED <<now, storeVars, sendSeq, sendOrder, supplied, gatewayVars, busVars>>
    /\ emitted' = NoEmit

\* POST /media/upload-url: the body is validated, then the service is called
PostUploadUrl(u, c, fileName, mimeType, fileSize) ==
    IF UploadDtoError(c, fileName, mimeType, fileSize) # ""
    THEN /\ reply' = ErrReply(0, "upload-url", UploadDtoError(c, fileName, mimeType, fileSize))
         /\ UNCHANGED <<now, storeVars, tasks, sendSeq, sendOrder, supplied, gatewayVars, busVars>>
         /\ emitted' = NoEmit
    ELSE requestUploadUrl(u, c, fileName, mimeType, fileSize)

\* the rest of requestUploadUrl: media type, size, path, and the blob store's answer
UploadSign(t) ==
    /\ t.kind = "upload" /\ t.pc = "classify"
    /\ tasks' = tasks \ {t}
    /\ LET mediaType == getMediaType(t.mimeType) IN
       IF mediaType = ""
       THEN /\ reply' = ErrReply(0, "upload-url", "Unsupported file type")
            /\ UNCHANGED signedUrls
       ELSE IF validateFileSize(mediaType, t.fileSize) # ""
       THEN /\ reply' = ErrReply(0, "upload-url", validateFileSize(mediaType, t.fileSize))
            /\ UNCHANGED signedUrls
       ELSE /\ Len(signedUrls) < MaxUploads
            /\ signedUrls' = Append(signedUrls,
                  [conversationId |-> t.conv, userId |-> t.user, at |-> now,
                   mediaType |-> mediaType, fileSize |-> t.fileSize,
                   fileName |-> t.fileName,
                   path |-> generateFilePath(t.conv, t.user, now, t.fileName)])
            /\ \/ reply' = OkReply(0, "upload-url", UPLOAD_EXPIRES_IN)
               \/ reply' = ErrReply(0, "upload-url", "Failed to generate signed upload URL")
    /\ UNCHANGED <<now, storeVars, sendSeq, sendOrder, supplied, gatewayVars, bus, inflight,
                   published, inbox, consumed>>
    /\ emitted' = NoEmit

\* ------------------------------------------------------------- receipts
\* an updateMany without the deliveredAt: null filter
MarkDeliveredAlways(rows, ids, u, ts) ==
    [i \in 1..Len(rows) |->
        IF rows[i].messageId \in ids /\ rows[i].userId = u
        THEN [rows[i] EXCEPT !.deliveredAt = ts] ELSE rows[i]]

\* messageStatus.updateMany({where: {messageId in ids, userId, deliveredAt: null}, data: {deliveredAt}})
MarkDelivered(rows, ids, u, ts) ==
    [i \in 1..Len(rows) |->
        IF rows[i].messageId \in ids /\ rows[i].userId = u /\ rows[i].deliveredAt = NULL
        THEN [rows[i] EXCEPT !.deliveredAt = ts] ELSE rows[i]]

\* an updateMany without the userId filter
MarkReadAnyUser(rows, ids, u, ts) ==
    [i \in 1..Len(rows) |->
        IF rows[i].messageId \in ids /\ rows[i].readAt = NULL
        THEN [rows[i] EXCEPT !.readAt = ts] ELSE rows[i]]

\* messageStatus.updateMany({where: {messageId in ids, userId, readAt: null}, data: {readAt}})
MarkRead(rows, ids, u, ts) ==
    [i \in 1..Len(rows) |->
        IF rows[i].messageId \in ids /\ rows[i].userId = u /\ rows[i].readAt = NULL
        THEN [rows[i] EXCEPT !.readAt = ts] ELSE rows[i]]

\* a findMany without the conversationId filter
ValidMessageIdsAnyConversation(mids, c) ==
    {m \in mids : MsgExists(m)}

\* message.findMany({where: {id in messageIds, conversationId}})
ValidMessageIds(mids, c) ==
    {m \in mids : MsgExists(m) /\ messages[m].conversationId = c}

\* message_delivered arrives on socket k; checks, then const now = new Date()
StartDelivered(k, c, mid) ==
    /\ Open(k)
    /\ Cardinality(tasks) < MaxTasks
    /\ IF ~Authenticated(k)
       THEN /\ reply' = ErrReply(k, "message_delivered", "Not authenticated")
            /\ UNCHANGED tasks
       ELSE IF c = NULL \/ mid = NULL
       THEN /\ reply' = ErrReply(k, "message_delivered", "conversationId and messageId are required")
            /\ UNCHANGED tasks
       ELSE IF ~validateMembership(c, conns[k].userId)
       THEN /\ reply' = ErrReply(k, "message_delivered", "You are not a member of this conversation")
            /\ UNCHANGED tasks
       ELSE /\ tasks' = tasks \cup {[kind |-> "delivered", conn |-> k, user |-> conns[k].userId,
                                      conv |-> c, mids |-> {mid}, now |-> now, pc |-> "write"]}
            /\ reply' = NoReply
    /\ UNCHANGED <<now, storeVars, sendSeq, sendOrder, supplied, gatewayVars, busVars>>
    /\ emitted' = NoEmit

\* the updateMany of handleMessageDelivered reaches the database
DeliveredWrite(t) ==
    /\ t.kind = "delivered" /\ t.pc = "write"
    /\ statuses' = MarkDelivered(statuses, t.mids, t.user, t.now)
    /\ tasks' = (tasks \ {t}) \cup {[t EXCEPT !.pc = "emit"]}
    /\ UNCHANGED <<now, users, conversations, members, messages, sendSeq, sendOrder, supplied,
                   gatewayVars, busVars>>
    /\ emitted' = NoEmit
    /\ reply' = NoReply

\* a receipt that is also put on chat:messages for the other instances
DeliveredEmitPublished(t) ==
    /\ t.kind = "delivered" /\ t.pc = "emit"
    /\ emitted' = [event |-> "message_delivered", conversationId |-> t.conv,
                   to |-> RoomOn(InstanceOf(t.conn), t.conv), userId |-> t.user,
                   messageIds |-> t.mids, at |-> t.now]
    /\ reply' = OkReply(t.conn, "message_delivered", 0)
    /\ tasks' = tasks \ {t}
    /\ bus' = [i \in Instances |->
                  Append(bus[i], [messageId |-> CHOOSE m \in t.mids : TRUE,
                                  conversationId |-> t.conv, senderId |-> t.user])]
    /\ published' = Append(published, [messageId |-> CHOOSE m \in t.mids : TRUE,
                                       conversationId |-> t.conv, senderId |-> t.user])
    /\ UNCHANGED <<now, storeVars, sendSeq, sendOrder, supplied, gatewayVars, inflight, inbox,
                   consumed, signedUrls>>

\* this.server.to(roomName).emit('message_delivered', ...) and the success reply
DeliveredEmit(t) ==
    /\ t.kind = "delivered" /\ t.pc = "emit"
    /\ emitted' = [event |-> "message_delivered", conversationId |-> t.conv,
                   to |-> RoomOn(InstanceOf(t.conn), t.conv), userId |-> t.user,
                   messageIds |-> t.mids, at |-> t.now]
    /\ reply' = OkReply(t.conn, "message_delivered", 0)
    /\ tasks' = tasks \ {t}
    /\ UNCHANGED <<now, storeVars, sendSeq, sendOrder, supplied, gatewayVars, busVars>>

\* message_read arrives on socket k; checks, findMany, then const now = new Date()
StartRead(k, c, mids) ==
    /\ Open(k)
    /\ Cardinality(tasks) < MaxTasks
    /\ IF ~Authenticated(k)
       THEN /\ reply' = ErrReply(k, "message_read", "Not authenticated")
            /\ UNCHANGED tasks
       ELSE IF c = NULL \/ mids = {}
       THEN /\ reply' = ErrReply(k, "message_read", "conversationId and messageIds are required")
            /\ UNCHANGED tasks
       ELSE IF ~validateMembership(c, conns[k].userId)
       THEN /\ reply' = ErrReply(k, "message_read", "You are not a member of this conversation")
            /\ UNCHANGED tasks
       ELSE IF ValidMessageIds(mids, c) = {}
       THEN /\ reply' = ErrReply(k, "message_read", "No valid messages found")
            /\ UNCHANGED tasks
       ELSE /\ tasks' = tasks \cup {[kind |-> "read", conn |-> k, user |-> conns[k].userId,
                                      conv |-> c, batch |-> mids,
                                      mids |-> ValidMessageIds(mids, c),
                                      now |-> now, pc |-> "write"]}
            /\ reply' = NoReply
    /\ UNCHANGED <<now, storeVars, sendSeq, sendOrder, supplied, gatewayVars, busVars>>
    /\ emitted' = NoEmit

\* a read handler that writes readAt only
ReadWriteReadOnly(t) ==
    /\ t.kind = "read" /\ t.pc = "write"
    /\ statuses' = MarkRead(statuses, t.mids, t.user, t.now)
    /\ tasks' = (tasks \ {t}) \cup {[t EXCEPT !.pc = "emit"]}
    /\ UNCHANGED <<now, users, conversations, members, messages, sendSeq, sendOrder, supplied,
                   gatewayVars, busVars>>
    /\ emitted' = NoEmit
    /\ reply' = NoReply

\* prisma.$transaction([updateMany deliveredAt, updateMany readAt]) commits
ReadWrite(t) ==
    /\ t.kind = "read" /\ t.pc = "write"
    /\ statuses' = MarkRead(MarkDelivered(statuses, t.mids, t.user, t.now),
                            t.mids, t.user, t.now)
    /\ tasks' = (tasks \ {t}) \cup {[t EXCEPT !.pc = "emit"]}
    /\ UNCHANGED <<now, users, conversations, members, messages, sendSeq, sendOrder, supplied,
                   gatewayVars, busVars>>
    /\ emitted' = NoEmit
    /\ reply' = NoReply

\* this.server.to(roomName).emit('message_read', ...) and the success reply
ReadEmit(t) ==
    /\ t.kind = "read" /\ t.pc = "emit"
    /\ emitted' = [event |-> "message_read", conversationId |-> t.conv,
                   to |-> RoomOn(InstanceOf(t.conn), t.conv), userId |-> t.user,
                   messageIds |-> t.mids, at |-> t.now]
    /\ reply' = OkReply(t.conn, "message_read", Cardinality(t.mids))
    /\ tasks' = tasks \ {t}
    /\ UNCHANGED <<now, storeVars, sendSeq, sendOrder, supplied, gatewayVars, busVars>>

\* the database write of a receipt handler throws: caught, success:false, nothing written
ReceiptFail(t) ==
    /\ t.kind \in {"delivered", "read"} /\ t.pc = "write"
    /\ tasks' = tasks \ {t}
    /\ reply' = ErrReply(t.conn, IF t.kind = "read" THEN "message_read" ELSE "message_delivered",
                         "write failed")
    /\ UNCHANGED <<now, storeVars, sendSeq, sendOrder, supplied, gatewayVars, busVars>>
    /\ emitted' = NoEmit

\* ----------------------------------------------------- handshake, disconnect
\* handshake.auth.token: 0 = none, a user id = a valid token of that user,
\* anything else = a token jwt.verify rejects
Tokens == 0..(NumUsers + 1)

\* AuthService.validateToken: the persisted user of the subject, or null
\* a verification that resolves every token to some user
validateTokenAnySubject(tok) == IF tok \in Users THEN tok ELSE 1

validateToken(tok) == IF tok \in Users THEN tok ELSE NULL

\* a client connects: handleConnection starts; no token -> client.disconnect()
Connect(k, tok) ==
    /\ conns[k].state = "idle"
    /\ conns' = [conns EXCEPT ![k] =
          IF tok = 0
          THEN [state |-> "closed", userId |-> NULL, token |-> tok, hs |-> "done", dc |-> "done", idle |-> 0,
                instance |-> conns[k].instance]
          ELSE [state |-> "open", userId |-> NULL, token |-> tok, hs |-> "verify", dc |-> "none", idle |-> 0,
                instance |-> conns[k].instance]]
    /\ UNCHANGED <<now, storeVars, tasks, sendSeq, sendOrder, supplied, rooms, presence, busVars>>
    /\ emitted' = NoEmit
    /\ reply' = NoReply

\* a handshake that goes from the verified credential straight to the acknowledgement
HsVerifyThenAck(k) ==
    /\ conns[k].hs = "verify"
    /\ LET u == validateToken(conns[k].token) IN
       IF u = NULL
       THEN /\ conns' = [conns EXCEPT ![k].state = "closed", ![k].hs = "done",
                                      ![k].dc = IF conns[k].dc = "none" THEN "done" ELSE @]
            /\ rooms' = [rooms EXCEPT ![k] = {}]
       ELSE /\ conns' = [conns EXCEPT ![k].userId = u, ![k].hs = "ack"]
            /\ UNCHANGED rooms
    /\ UNCHANGED <<now, storeVars, tasks, sendSeq, sendOrder, supplied, presence, busVars>>
    /\ emitted' = NoEmit
    /\ reply' = NoReply

\* validateToken returns: client.userId = user.id, or client.disconnect()
HsVerify(k) ==
    /\ conns[k].hs = "verify"
    /\ LET u == validateToken(conns[k].token) IN
       IF u = NULL
       THEN /\ conns' = [conns EXCEPT ![k].state = "closed", ![k].hs = "done",
                                      ![k].dc = IF conns[k].dc = "none" THEN "done" ELSE @]
            /\ rooms' = [rooms EXCEPT ![k] = {}]
       ELSE /\ conns' = [conns EXCEPT ![k].userId = u, ![k].hs = "presence"]
            /\ UNCHANGED rooms
    /\ UNCHANGED <<now, storeVars, tasks, sendSeq, sendOrder, supplied, presence, busVars>>
    /\ emitted' = NoEmit
    /\ reply' = NoReply

\* redisService.setUserOnline: SET user:{id}:online true EX 60
HsPresence(k) ==
    /\ conns[k].hs = "presence"
    /\ presence' = [presence EXCEPT ![conns[k].userId] = PRESENCE_TTL]
    /\ conns' = [conns EXCEPT ![k].hs = "ack", ![k].idle = 0]
    /\ UNCHANGED <<now, storeVars, tasks, sendSeq, sendOrder, supplied, rooms, busVars>>
    /\ emitted' = NoEmit
    /\ reply' = NoReply

\* setUserOnline throws: caught, client.disconnect(); the principal is already attached,
\* so the disconnect handler of a socket that was still open runs its cleanup
HsPresenceFail(k) ==
    /\ conns[k].hs = "presence"
    /\ conns' = [conns EXCEPT ![k].state = "closed", ![k].hs = "done",
                              ![k].dc = IF conns[k].dc = "none" THEN "lastSeen" ELSE @]
    /\ rooms' = [rooms EXCEPT ![k] = {}]
    /\ UNCHANGED <<now, storeVars, tasks, sendSeq, sendOrder, supplied, presence, busVars>>
    /\ emitted' = NoEmit
    /\ reply' = NoReply

\* client.emit('connected', {userId})
HsAck(k) ==
    /\ conns[k].hs = "ack"
    /\ conns' = [conns EXCEPT ![k].hs = "done"]
    /\ emitted' = [event |-> "connected", conversationId |-> 0,
                   to |-> IF Open(k) THEN {k} ELSE {}, userId |-> conns[k].userId,
                   messageIds |-> {}, at |-> NULL]
    /\ UNCHANGED <<now, storeVars, tasks, sendSeq, sendOrder, supplied, rooms, presence, busVars>>
    /\ reply' = NoReply

\* the socket closes: it leaves its rooms and handleDisconnect starts
Disconnect(k) ==
    /\ Open(k)
    /\ conns' = [conns EXCEPT ![k].state = "closed",
                              ![k].dc = IF conns[k].userId # NULL THEN "lastSeen" ELSE "done"]
    /\ rooms' = [rooms EXCEPT ![k] = {}]
    /\ UNCHANGED <<now, storeVars, tasks, sendSeq, sendOrder, supplied, presence, busVars>>
    /\ emitted' = NoEmit
    /\ reply' = NoReply

\* authService.updateLastSeen
DcLastSeen(k) ==
    /\ conns[k].dc = "lastSeen"
    /\ users' = [users EXCEPT ![conns[k].userId].lastSeen = now]
    /\ conns' = [conns EXCEPT ![k].dc = "offline"]
    /\ UNCHANGED <<now, conversations, members, messages, statuses, tasks, sendSeq, sendOrder, supplied,
                   rooms, presence, busVars>>
    /\ emitted' = NoEmit
    /\ reply' = NoReply

\* updateLastSeen or setUserOffline throws: caught and logged, the handler ends
DcFail(k) ==
    /\ conns[k].dc \in {"lastSeen", "offline"}
    /\ conns' = [conns EXCEPT ![k].dc = "done"]
    /\ UNCHANGED <<now, storeVars, tasks, sendSeq, sendOrder, supplied, rooms, presence, busVars>>
    /\ emitted' = NoEmit
    /\ reply' = NoReply

\* redisService.setUserOffline: DEL user:{id}:online
DcOffline(k) ==
    /\ conns[k].dc = "offline"
    /\ presence' = [presence EXCEPT ![conns[k].userId] = 0]
    /\ conns' = [conns EXCEPT ![k].dc = "done"]
    /\ UNCHANGED <<now, storeVars, tasks, sendSeq, sendOrder, supplied, rooms, busVars>>
    /\ emitted' = NoEmit
    /\ reply' = NoReply

\* ------------------------------------------------------------------ rooms
\* a join that skips validateMembership
JoinConversationUnchecked(k, c) ==
    /\ Open(k)
    /\ IF ~Authenticated(k)
       THEN /\ reply' = ErrReply(k, "join_conversation", "Not authenticated")
            /\ UNCHANGED rooms
       ELSE IF c = NULL
       THEN /\ reply' = ErrReply(k, "join_conversation", "conversationId is required")
            /\ UNCHANGED rooms
       ELSE /\ rooms' = [rooms EXCEPT ![k] = @ \cup {c}]
            /\ reply' = OkReply(k, "join_conversation", c)
    /\ UNCHANGED <<now, storeVars, tasks, sendSeq, sendOrder, supplied, conns, presence, busVars>>
    /\ emitted' = NoEmit

\* join_conversation: membership check, then client.join
JoinConversation(k, c) ==
    /\ Open(k)
    /\ IF ~Authenticated(k)
       THEN /\ reply' = ErrReply(k, "join_conversation", "Not authenticated")
            /\ UNCHANGED rooms
       ELSE IF c = NULL
       THEN /\ reply' = ErrReply(k, "join_conversation", "conversationId is required")
            /\ UNCHANGED rooms
       ELSE IF ~validateMembership(c, conns[k].userId)
       THEN /\ reply' = ErrReply(k, "join_conversation", "You are not a member of this conversation")
            /\ UNCHANGED rooms
       ELSE /\ rooms' = [rooms EXCEPT ![k] = @ \cup {c}]
            /\ reply' = OkReply(k, "join_conversation", c)
    /\ UNCHANGED <<now, storeVars, tasks, sendSeq, sendOrder, supplied, conns, presence, busVars>>
    /\ emitted' = NoEmit

\* leave_conversation: client.leave
LeaveConversation(k, c) ==
    /\ Open(k)
    /\ IF ~Authenticated(k)
       THEN /\ reply' = ErrReply(k, "leave_conversation", "Not authenticated")
            /\ UNCHANGED rooms
       ELSE IF c = NULL
       THEN /\ reply' = ErrReply(k, "leave_conversation", "conversationId is required")
            /\ UNCHANGED rooms
       ELSE /\ rooms' = [rooms EXCEPT ![k] = @ \ {c}]
            /\ reply' = OkReply(k, "leave_conversation", c)
    /\ UNCHANGED <<now, storeVars, tasks, sendSeq, sendOrder, supplied, conns, presence, busVars>>
    /\ emitted' = NoEmit

\* a broadcast with this.server.to(room), which also reaches the typing socket
TypingToRoom(k, c, ev) ==
    /\ Open(k)
    /\ IF ~Authenticated(k)
       THEN /\ reply' = ErrReply(k, ev, "Not authenticated")
            /\ emitted' = NoEmit
       ELSE IF c = NULL
       THEN /\ reply' = ErrReply(k, ev, "conversationId is required")
            /\ emitted' = NoEmit
       ELSE IF ~validateMembership(c, conns[k].userId)
       THEN /\ reply' = ErrReply(k, ev, "You are not a member of this conversation")
            /\ emitted' = NoEmit
       ELSE /\ emitted' = [event |-> IF ev = "typing_start" THEN "user_typing" ELSE "user_typing_stop",
                           conversationId |-> c, to |-> RoomOn(InstanceOf(k), c),
                           userId |-> conns[k].userId, messageIds |-> {}, at |-> NULL]
            /\ reply' = OkReply(k, ev, 0)
    /\ UNCHANGED <<now, storeVars, tasks, sendSeq, sendOrder, supplied, gatewayVars, busVars>>

\* typing_start / typing_stop: membership check, client.to(room).emit
Typing(k, c, ev) ==
    /\ Open(k)
    /\ IF ~Authenticated(k)
       THEN /\ reply' = ErrReply(k, ev, "Not authenticated")
            /\ emitted' = NoEmit
       ELSE IF c = NULL
       THEN /\ reply' = ErrReply(k, ev, "conversationId is required")
            /\ emitted' = NoEmit
       ELSE IF ~validateMembership(c, conns[k].userId)
       THEN /\ reply' = ErrReply(k, ev, "You are not a member of this conversation")
            /\ emitted' = NoEmit
       ELSE /\ emitted' = [event |-> IF ev = "typing_start" THEN "user_typing" ELSE "user_typing_stop",
                           conversationId |-> c, to |-> RoomOn(InstanceOf(k), c) \ {k},
                           userId |-> conns[k].userId, messageIds |-> {}, at |-> NULL]
            /\ reply' = OkReply(k, ev, 0)
    /\ UNCHANGED <<now, storeVars, tasks, sendSeq, sendOrder, supplied, gatewayVars, busVars>>

\* a SET with EX 60 in place of the EXPIRE
extendPresenceSet(p, u) == [p EXCEPT ![u] = PRESENCE_TTL]

\* redisService.extendPresence: EXPIRE user:{id}:online 60, which does nothing when the
\* key does not exist
extendPresence(p, u) == [p EXCEPT ![u] = IF @ > 0 THEN PRESENCE_TTL ELSE 0]

\* a heartbeat that answers without touching the key
HeartbeatNoExtend(k) ==
    /\ Open(k)
    /\ IF Authenticated(k)
       THEN /\ conns' = [conns EXCEPT ![k].idle = 0]
            /\ reply' = OkReply(k, "heartbeat", 0)
       ELSE /\ UNCHANGED conns
            /\ reply' = NoReply
    /\ UNCHANGED <<now, storeVars, tasks, sendSeq, sendOrder, supplied, rooms, presence, busVars>>
    /\ emitted' = NoEmit

\* heartbeat: extendPresence (EXPIRE user:{id}:online 60, nothing when the key is gone),
\* {status: 'ok'}; without a principal the handler returns nothing
Heartbeat(k) ==
    /\ Open(k)
    /\ IF Authenticated(k)
       THEN /\ presence' = extendPresence(presence, conns[k].userId)
            /\ conns' = [conns EXCEPT ![k].idle = 0]
            /\ reply' = OkReply(k, "heartbeat", 0)
       ELSE /\ UNCHANGED <<presence, conns>>
            /\ reply' = NoReply
    /\ UNCHANGED <<now, storeVars, tasks, sendSeq, sendOrder, supplied, rooms, busVars>>
    /\ emitted' = NoEmit

\* ping: {event: 'pong'}, whoever asks
Ping(k) ==
    /\ Open(k)
    /\ reply' = OkReply(k, "ping", 0)
    /\ UNCHANGED <<now, storeVars, tasks, sendSeq, sendOrder, supplied, gatewayVars, busVars>>
    /\ emitted' = NoEmit

\* ------------------------------------------------------------- user sync
UserNames == {"A", "B"}

\* AuthService.syncUser: upsert by email, the update branch sets the name
syncUser(u, name) ==
    /\ users' = [users EXCEPT ![u].name = name]
    /\ UNCHANGED <<now, conversations, members, messages, statuses, tasks, sendSeq, sendOrder,
                   supplied, gatewayVars, busVars>>
    /\ emitted' = NoEmit
    /\ reply' = NoReply

\* ----------------------------------------------------------- bus consumer
\* the subscribe callback: JSON.parse, handler(payload) is called and not awaited
BusDeliver(i) ==
    /\ bus[i] # <<>>
    /\ inflight' = [inflight EXCEPT ![i] = @ \cup {Head(bus[i])}]
    /\ bus' = [bus EXCEPT ![i] = Tail(@)]
    /\ UNCHANGED <<now, storeVars, tasks, sendSeq, sendOrder, supplied, gatewayVars, published, inbox,
                   consumed, signedUrls>>
    /\ emitted' = NoEmit
    /\ reply' = NoReply

\* clientPayload of handleRedisMessage, from the row re-read
ClientPayload(m) ==
    [id |-> m, conversationId |-> messages[m].conversationId,
     senderId |-> messages[m].senderId, content |-> messages[m].content,
     type |-> messages[m].type, createdAt |-> messages[m].createdAt,
     sender |-> [id |-> messages[m].senderId, name |-> users[messages[m].senderId].name]]

\* findUnique returns: emit message_received to the room of the tuple, or drop
ConsumerEmit(i, p) ==
    /\ p \in inflight[i]
    /\ inflight' = [inflight EXCEPT ![i] = @ \ {p}]
    /\ IF MsgExists(p.messageId)
       THEN /\ inbox' = [j \in Conns |->
                   IF j \in RoomOn(i, p.conversationId)
                   THEN Append(inbox[j], ClientPayload(p.messageId)) ELSE inbox[j]]
            /\ emitted' = [event |-> "message_received", conversationId |-> p.conversationId,
                           to |-> RoomOn(i, p.conversationId),
                           userId |-> messages[p.messageId].senderId,
                           messageIds |-> {p.messageId}, at |-> NULL]
       ELSE /\ UNCHANGED inbox
            /\ emitted' = NoEmit
    /\ consumed' = [consumed EXCEPT ![i] = @ \cup {p.messageId}]
    /\ UNCHANGED <<now, storeVars, tasks, sendSeq, sendOrder, supplied, gatewayVars, bus, published, signedUrls>>
    /\ reply' = NoReply

\* chat:messages carries a tuple that names no committed message: the subscribe
\* callback of every instance gets whatever any client of the bus publishes
BusForeign(m, c, u) ==
    /\ ~MsgExists(m)
    /\ \A i \in Instances :
          /\ m \notin consumed[i]
          /\ \A p \in Range(bus[i]) \cup inflight[i] : p.messageId # m
    /\ bus' = [i \in Instances |->
                  Append(bus[i], [messageId |-> m, conversationId |-> c, senderId |-> u])]
    /\ UNCHANGED <<now, storeVars, tasks, sendSeq, sendOrder, supplied, gatewayVars, inflight,
                   published, inbox, consumed, signedUrls>>
    /\ emitted' = NoEmit
    /\ reply' = NoReply

\* a consumer that tells the room about a failed re-read
ConsumerFailNotifies(i, p) ==
    /\ p \in inflight[i]
    /\ inflight' = [inflight EXCEPT ![i] = @ \ {p}]
    /\ consumed' = [consumed EXCEPT ![i] = @ \cup {p.messageId}]
    /\ UNCHANGED <<now, storeVars, tasks, sendSeq, sendOrder, supplied, gatewayVars, bus, published,
                   inbox, signedUrls>>
    /\ emitted' = [event |-> "error", conversationId |-> p.conversationId,
                   to |-> RoomOn(i, p.conversationId), userId |-> p.senderId,
                   messageIds |-> {p.messageId}, at |-> NULL]
    /\ reply' = NoReply

\* the re-read throws: caught and logged, the notification is dropped
ConsumerFail(i, p) ==
    /\ p \in inflight[i]
    /\ inflight' = [inflight EXCEPT ![i] = @ \ {p}]
    /\ consumed' = [consumed EXCEPT ![i] = @ \cup {p.messageId}]
    /\ UNCHANGED <<now, storeVars, tasks, sendSeq, sendOrder, supplied, gatewayVars, bus, published,
                   inbox, signedUrls>>
    /\ emitted' = NoEmit
    /\ reply' = NoReply

\* ------------------------------------------------------------------- next
CreateNext ==
    \/ \E u \in Users, ids \in UserIdLists(2), g \in BOOLEAN, n \in {"", "Team"} :
          StartCreate(u, ids, g, n)
    \/ \E t \in tasks : CreateLookup(t)
    \/ \E t \in tasks : CreateInsert(t)

\* MessagesService.send: the load and the transaction
SendSteps ==
    \/ \E t \in tasks : SendLoad(t)
    \/ \E t \in tasks : SendInsert(t)
    \/ \E t \in tasks : SendStatus(t)
    \/ \E t \in tasks : SendUpdate(t)
    \/ \E t \in tasks : SendLock(t)
    \/ \E t \in tasks : SendCommit(t)
    \/ \E t \in tasks : SendRollback(t)

\* POST /messages
PostNext ==
    \/ \E u \in Users, c \in ConvIds, b \in SendBodies : StartPostMessage(u, c, b)
    \/ SendSteps

\* send_message: the same service, then publish and reply
WsSendNext ==
    \/ \E k \in Conns, c \in ConvIds, b \in SendBodies : StartSendMessage(k, c, b)
    \/ SendSteps
    \/ \E t \in tasks : SendPublish(t)
    \/ \E t \in tasks : SendPublishFail(t)
    \/ \E t \in tasks : SendReply(t)

SendNext ==
    \/ \E u \in Users, c \in ConvIds, b \in SendBodies : StartPostMessage(u, c, b)
    \/ WsSendNext

DeliveredNext ==
    \/ \E k \in Conns, c \in ConvIds, m \in MsgIds : StartDelivered(k, c, m)
    \/ \E t \in tasks : DeliveredWrite(t)
    \/ \E t \in tasks : DeliveredEmit(t)
    \/ \E t \in tasks : ReceiptFail(t)

ReceiptNext ==
    \/ DeliveredNext
    \/ \E k \in Conns, c \in ConvIds, ms \in SUBSET MsgIds : StartRead(k, c, ms)
    \/ \E t \in tasks : ReadWrite(t)
    \/ \E t \in tasks : ReadEmit(t)

RoomNext ==
    \/ \E k \in Conns, c \in ConvIds : JoinConversation(k, c)
    \/ \E k \in Conns, c \in ConvIds : LeaveConversation(k, c)

GatewayNext ==
    \/ \E k \in Conns, tok \in Tokens : Connect(k, tok)
    \/ \E k \in Conns : HsVerify(k)
    \/ \E k \in Conns : HsPresence(k)
    \/ \E k \in Conns : HsAck(k)
    \/ \E k \in Conns : Disconnect(k)
    \/ \E k \in Conns : DcLastSeen(k)
    \/ \E k \in Conns : DcOffline(k)
    \/ RoomNext
    \/ \E k \in Conns, c \in ConvIds, ev \in {"typing_start", "typing_stop"} : Typing(k, c, ev)
    \/ \E k \in Conns : Heartbeat(k)
    \/ \E k \in Conns : Ping(k)

\* the presence store or the user table fails under a handshake or a disconnect
GatewayFailNext ==
    \/ \E k \in Conns : HsPresenceFail(k)
    \/ \E k \in Conns : DcFail(k)

BusNext ==
    \/ \E i \in Instances : BusDeliver(i)
    \/ \E i \in Instances : \E p \in inflight[i] : ConsumerEmit(i, p)
    \/ \E i \in Instances : \E p \in inflight[i] : ConsumerFail(i, p)

SyncNext == \E u \in Users, n \in UserNames : syncUser(u, n)

Next ==
    \/ Tick \/ CreateNext \/ SendNext \/ ReceiptNext \/ GatewayNext \/ GatewayFailNext
    \/ BusNext \/ SyncNext

\* The whole system, from an empty store and no sockets.
Spec == Init /\ [][Next]_vars

\* ------------------------------------------------- a populated, reachable store
\* user 1 has created one conversation, the 1-to-1 with user 2 or the group "Team"
\* with users 2 and 3; socket k has completed the handshake of user ConnUser(k)
ConnUser(k) == ((k - 1) % NumUsers) + 1

ChatState(g) ==
    /\ now = 1
    /\ users = [u \in Users |-> [lastSeen |-> NULL, name |-> "A"]]
    /\ conversations = << [isGroup |-> g, name |-> IF g THEN "Team" ELSE "",
                           createdAt |-> 1, updatedAt |-> 1] >>
    /\ members = Range(NewMemberRows(1, 1, IF g THEN <<2, 3>> ELSE <<2>>, g))
    /\ messages = <<>>
    /\ statuses = <<>>
    /\ tasks = {}
    /\ sendSeq = 0
    /\ sendOrder = <<>>
    /\ supplied = <<>>
    /\ conns = [k \in Conns |-> [state |-> "open", userId |-> ConnUser(k), token |-> ConnUser(k),
                                 hs |-> "done", dc |-> "none", idle |-> 0,
                                 instance |-> HomeInstance(k)]]
    /\ rooms = [k \in Conns |-> {}]
    /\ presence = [u \in Users |-> IF \E k \in Conns : ConnUser(k) = u THEN PRESENCE_TTL ELSE 0]
    /\ bus = [i \in Instances |-> <<>>]
    /\ inflight = [i \in Instances |-> {}]
    /\ published = <<>>
    /\ inbox = [k \in Conns |-> <<>>]
    /\ consumed = [i \in Instances |-> {}]
    /\ signedUrls = << >>
    /\ emitted = NoEmit
    /\ reply = NoReply

InitChat == \E g \in BOOLEAN : ChatState(g)

\* conversation creation alone
SpecConv == Init /\ [][CreateNext]_vars

\* sends (socket and REST) and the clock
SpecSend == InitChat /\ [][Tick \/ SendNext]_vars

\* the same store, no socket connected yet; socket k will be accepted by instance at[k]
GatewayOn(at) ==
    /\ now = 1
    /\ users = [u \in Users |-> [lastSeen |-> NULL, name |-> "A"]]
    /\ \E g \in BOOLEAN :
          /\ conversations = << [isGroup |-> g, name |-> IF g THEN "Team" ELSE "",
                                 createdAt |-> 1, updatedAt |-> 1] >>
          /\ members = Range(NewMemberRows(1, 1, IF g THEN <<2, 3>> ELSE <<2>>, g))
    /\ messages = <<>>
    /\ statuses = <<>>
    /\ tasks = {}
    /\ sendSeq = 0
    /\ sendOrder = <<>>
    /\ supplied = <<>>
    /\ conns = [k \in Conns |-> [state |-> "idle", userId |-> NULL, token |-> 0,
                                 hs |-> "none", dc |-> "none", idle |-> 0,
                                 instance |-> at[k]]]
    /\ rooms = [k \in Conns |-> {}]
    /\ presence = [u \in Users |-> 0]
    /\ bus = [i \in Instances |-> <<>>]
    /\ inflight = [i \in Instances |-> {}]
    /\ published = <<>>
    /\ inbox = [k \in Conns |-> <<>>]
    /\ consumed = [i \in Instances |-> {}]
    /\ signedUrls = << >>
    /\ emitted = NoEmit
    /\ reply = NoReply

InitGateway == GatewayOn([k \in Conns |-> HomeInstance(k)])

\* message_delivered and message_read for message 1 of conversation 1, from any socket
\* (no message is stored here, so a read batch is refused at the latest by findMany)
RoomsReceipts ==
    \/ \E k \in Conns : StartDelivered(k, 1, 1)
    \/ \E k \in Conns : StartRead(k, 1, {1})
    \/ \E t \in tasks : DeliveredWrite(t)
    \/ \E t \in tasks : DeliveredEmit(t)
    \/ \E t \in tasks : ReceiptFail(t)

\* the gateway's handshake, rooms, typing and delivery receipts
SpecRooms == InitGateway /\ [][GatewayNext \/ RoomsReceipts]_vars

\* the group holds two committed messages, one of user 1 and one of user 2,
\* and every socket is a connection of user 2
InitReceipts ==
    /\ now = 1
    /\ users = [u \in Users |-> [lastSeen |-> NULL, name |-> "A"]]
    /\ conversations = << [isGroup |-> TRUE, name |-> "Team", createdAt |-> 1, updatedAt |-> 1] >>
    /\ members = Range(NewMemberRows(1, 1, <<2, 3>>, TRUE))
    /\ messages = [m \in 1..2 |->
          MessageRow([conv |-> 1, user |-> m, body |-> [content |-> "hi", type |-> "text"],
                      createdAt |-> 1])]
    /\ statuses = StatusData([members |-> <<1, 2, 3>>, user |-> 1, deliveredAt |-> 1], 1)
                    \o StatusData([members |-> <<1, 2, 3>>, user |-> 2, deliveredAt |-> 1], 2)
    /\ tasks = {}
    /\ sendSeq = 2
    /\ sendOrder = <<1, 2>>
    /\ supplied = <<"", "">>
    /\ conns = [k \in Conns |-> [state |-> "open", userId |-> 2, token |-> 2,
                                 hs |-> "done", dc |-> "none", idle |-> 0,
                                 instance |-> HomeInstance(k)]]
    /\ rooms = [k \in Conns |-> {1}]
    /\ presence = [u \in Users |-> IF u = 2 THEN PRESENCE_TTL ELSE 0]
    /\ bus = [i \in Instances |-> <<>>]
    /\ inflight = [i \in Instances |-> {}]
    /\ published = <<>>
    /\ inbox = [k \in Conns |-> <<>>]
    /\ consumed = [i \in Instances |-> {}]
    /\ signedUrls = << >>
    /\ emitted = NoEmit
    /\ reply = NoReply

\* receipts of one user over several connections, and the clock
SpecReceipts == InitReceipts /\ [][Tick \/ ReceiptNext]_vars

\* a group of three and a direct conversation of users 1 and 2, one committed message
\* of user 1 in each, and every socket belonging to user 2
InitTwoConvs ==
    /\ now = 1
    /\ users = [u \in Users |-> [lastSeen |-> NULL, name |-> "A"]]
    /\ conversations = << [isGroup |-> TRUE, name |-> "Team", createdAt |-> 1, updatedAt |-> 1],
                          [isGroup |-> FALSE, name |-> "", createdAt |-> 1, updatedAt |-> 1] >>
    /\ members = Range(NewMemberRows(1, 1, <<2, 3>>, TRUE))
                    \cup Range(NewMemberRows(2, 1, <<2>>, FALSE))
    /\ messages = [m \in 1..2 |->
          MessageRow([conv |-> m, user |-> 1, body |-> [content |-> "hi", type |-> "text"],
                      createdAt |-> 1])]
    /\ statuses = StatusData([members |-> <<1, 2, 3>>, user |-> 1, deliveredAt |-> 1], 1)
                    \o StatusData([members |-> <<1, 2>>, user |-> 1, deliveredAt |-> 1], 2)
    /\ tasks = {}
    /\ sendSeq = 2
    /\ sendOrder = <<1, 2>>
    /\ supplied = <<"", "">>
    /\ conns = [k \in Conns |-> [state |-> "open", userId |-> 2, token |-> 2,
                                 hs |-> "done", dc |-> "none", idle |-> 0,
                                 instance |-> HomeInstance(k)]]
    /\ rooms = [k \in Conns |-> {1, 2}]
    /\ presence = [u \in Users |-> IF u = 2 THEN PRESENCE_TTL ELSE 0]
    /\ bus = [i \in Instances |-> <<>>]
    /\ inflight = [i \in Instances |-> {}]
    /\ published = <<>>
    /\ inbox = [k \in Conns |-> <<>>]
    /\ consumed = [i \in Instances |-> {}]
    /\ signedUrls = << >>
    /\ emitted = NoEmit
    /\ reply = NoReply

\* receipts of one user who belongs to two conversations, and the clock
SpecTwoConvs == InitTwoConvs /\ [][Tick \/ ReceiptNext]_vars

\* a group of three whose conversation holds n committed messages, message m created
\* at time at[m]
HistoryState(n, at) ==
    /\ now = n + 1
    /\ users = [u \in Users |-> [lastSeen |-> NULL, name |-> "A"]]
    /\ conversations = << [isGroup |-> TRUE, name |-> "Team", createdAt |-> 1,
                           updatedAt |-> n + 1] >>
    /\ members = Range(NewMemberRows(1, 1, <<2, 3>>, TRUE))
    /\ messages = [m \in 1..n |->
          MessageRow([conv |-> 1, user |-> 1, body |-> [content |-> "hi", type |-> "text"],
                      createdAt |-> at[m]])]
    /\ statuses = [i \in 1..(3 * n) |->
          StatusData([members |-> <<1, 2, 3>>, user |-> 1,
                      deliveredAt |-> at[((i - 1) \div 3) + 1]],
                     ((i - 1) \div 3) + 1)[((i - 1) % 3) + 1]]
    /\ tasks = {}
    /\ sendSeq = n
    /\ sendOrder = [m \in 1..n |-> m]
    /\ supplied = [m \in 1..n |-> ""]
    /\ conns = [k \in Conns |-> [state |-> "idle", userId |-> 0, token |-> 0,
                                 hs |-> "none", dc |-> "none", idle |-> 0,
                                 instance |-> HomeInstance(k)]]
    /\ rooms = [k \in Conns |-> {}]
    /\ presence = [u \in Users |-> 0]
    /\ bus = [i \in Instances |-> <<>>]
    /\ inflight = [i \in Instances |-> {}]
    /\ published = <<>>
    /\ inbox = [k \in Conns |-> <<>>]
    /\ consumed = [i \in Instances |-> {}]
    /\ signedUrls = << >>
    /\ emitted = NoEmit
    /\ reply = NoReply

\* histories of up to MaxHistory messages with distinct createdAt in any order of
\* creation, and one of ExampleMessages messages
InitHistory ==
    \/ \E n \in 0..MaxHistory :
          \E at \in [1..n -> 1..n] :
              /\ \A i, j \in 1..n : at[i] = at[j] => i = j
              /\ HistoryState(n, at)
    \/ HistoryState(ExampleMessages, [m \in 1..ExampleMessages |-> m])

HistoryNext ==
    \/ \E u \in Users, limit \in (1..MaxLimit) \cup {DEFAULT_LIMIT} : StartPager(u, 1, limit)
    \/ \E t \in tasks : PagerStep(t)

\* clients page through a history that does not change
SpecHistory == InitHistory /\ [][HistoryNext]_vars

\* the smallest sizes and the sizes at and just over the two limits
FileSizes == {0, 1, MAX_IMAGE_SIZE, MAX_IMAGE_SIZE + 1, MAX_VIDEO_SIZE, MAX_VIDEO_SIZE + 1}

\* two image types, two video types and a type that is not allowed
MimeTypes == {"image/jpeg", "image/webp", "video/mp4", "video/webm", "application/pdf"}

\* a file name that sanitizing leaves as it is
PlainFileName == <<"a", ".", "a">>

UploadNext ==
    \/ /\ tasks = {}
       /\ \E u \in Users, c \in ConvIds, mt \in MimeTypes, size \in FileSizes :
             requestUploadUrl(u, c, PlainFileName, mt, size)
    \/ /\ tasks = {}
       /\ \E u \in Users, c \in ConvIds \cup {NULL}, mt \in MimeTypes, size \in FileSizes :
             PostUploadUrl(u, c, PlainFileName, mt, size)
    \/ \E t \in tasks : UploadSign(t)

\* upload URL requests, through the route and to the service, one at a time
SpecUpload == ChatState(FALSE) /\ [][UploadNext]_vars

\* send_message of socket 1, the bus, its consumers, and the rooms
FanoutSend ==
    \/ \E c \in ConvIds, b \in SendBodies : StartSendMessage(1, c, b)
    \/ SendSteps
    \/ \E t \in tasks : SendPublish(t)
    \/ \E t \in tasks : SendPublishFail(t)
    \/ \E t \in tasks : SendReply(t)

SpecFanout == ChatState(TRUE) /\ [][RoomNext \/ FanoutSend \/ BusNext]_vars

\* socket 1 sends text messages to conversation 1; the bus hands every tuple over
\* and every re-read returns
LiveSend ==
    \/ StartSendMessage(1, 1, [content |-> "hi", type |-> "text", mediaUrl |-> ""])
    \/ SendSteps
    \/ \E t \in tasks : SendPublish(t)
    \/ \E t \in tasks : SendPublishFail(t)
    \/ \E t \in tasks : SendReply(t)

LiveRooms ==
    \/ \E k \in Conns : JoinConversation(k, 1)
    \/ \E k \in Conns : LeaveConversation(k, 1)

FanoutLiveNext ==
    \/ LiveRooms
    \/ LiveSend
    \/ \E i \in Instances : BusDeliver(i)
    \/ \E i \in Instances : \E p \in inflight[i] : ConsumerEmit(i, p)

SpecFanoutLive ==
    /\ ChatState(TRUE)
    /\ [][FanoutLiveNext]_vars
    /\ \A i \in Instances : WF_vars(BusDeliver(i))
    /\ \A i \in Instances : WF_vars(\E p \in inflight[i] : ConsumerEmit(i, p))

\* sends of socket 1, rooms, and consumers that also get tuples naming no message and
\* whose re-read can fail
ConsumerNext ==
    \/ \E k \in Conns : JoinConversation(k, 1)
    \/ LiveSend
    \/ BusNext
    \/ BusForeign(MaxSends, 1, 1)

SpecConsumer == ChatState(TRUE) /\ [][ConsumerNext]_vars

\* the two entry points of MessagesService.send side by side: POST /messages by user 1
\* and send_message on socket 1, with the clock, the rooms and the bus consumers
PostLiveNext ==
    \/ Tick
    \/ \E k \in Conns : JoinConversation(k, 1)
    \/ StartPostMessage(1, 1, [content |-> "hi", type |-> "text", mediaUrl |-> ""])
    \/ LiveSend
    \/ \E i \in Instances : BusDeliver(i)
    \/ \E i \in Instances : \E p \in inflight[i] : ConsumerEmit(i, p)

SpecPostLive == ChatState(TRUE) /\ [][PostLiveNext]_vars

\* socket 1 sends to conversation 1 while the sender's profile is synced again
SpecProfile ==
    ChatState(TRUE) /\ [][LiveRooms \/ LiveSend \/ BusNext
                            \/ (\E n \in UserNames : syncUser(1, n))]_vars

\* the group holds one committed message of user 1; sockets 1 and 2 are connections of
\* users 1 and 2, in no room yet; socket k is held by instance at[k]
FrameOn(at) ==
    /\ now = 1
    /\ users = [u \in Users |-> [lastSeen |-> NULL, name |-> "A"]]
    /\ conversations = << [isGroup |-> TRUE, name |-> "Team", createdAt |-> 1, updatedAt |-> 1] >>
    /\ members = Range(NewMemberRows(1, 1, <<2, 3>>, TRUE))
    /\ messages = << MessageRow([conv |-> 1, user |-> 1,
                                 body |-> [content |-> "hi", type |-> "text"], createdAt |-> 1]) >>
    /\ statuses = StatusData([members |-> <<1, 2, 3>>, user |-> 1, deliveredAt |-> 1], 1)
    /\ tasks = {}
    /\ sendSeq = 1
    /\ sendOrder = <<1>>
    /\ supplied = <<"">>
    /\ conns = [k \in Conns |-> [state |-> "open", userId |-> ConnUser(k), token |-> ConnUser(k),
                                 hs |-> "done", dc |-> "none", idle |-> 0,
                                 instance |-> at[k]]]
    /\ rooms = [k \in Conns |-> {}]
    /\ presence = [u \in Users |-> IF \E k \in Conns : ConnUser(k) = u THEN PRESENCE_TTL ELSE 0]
    /\ bus = [i \in Instances |-> <<>>]
    /\ inflight = [i \in Instances |-> {}]
    /\ published = <<>>
    /\ inbox = [k \in Conns |-> <<>>]
    /\ consumed = [i \in Instances |-> {}]
    /\ signedUrls = << >>
    /\ emitted = NoEmit
    /\ reply = NoReply

InitFrame == FrameOn([k \in Conns |-> HomeInstance(k)])

\* socket 1 sends once more; both sockets join, acknowledge and read, members read the
\* history, the bus fans out
FrameNext ==
    \/ \E k \in Conns : JoinConversation(k, 1)
    \/ LiveSend
    \/ \E i \in Instances : BusDeliver(i)
    \/ \E i \in Instances : \E p \in inflight[i] : ConsumerEmit(i, p)
    \/ \E k \in Conns : StartDelivered(k, 1, 1)
    \/ \E t \in tasks : DeliveredWrite(t)
    \/ \E t \in tasks : DeliveredEmit(t)
    \/ \E t \in tasks : ReceiptFail(t)
    \/ \E k \in Conns, ms \in {{1}, {1, 2}} : StartRead(k, 1, ms)
    \/ \E t \in tasks : ReadWrite(t)
    \/ \E t \in tasks : ReadEmit(t)
    \/ \E u \in Users : findByConversation(u, 1, NoCursor, DEFAULT_LIMIT)

SpecFrame == InitFrame /\ [][FrameNext]_vars

\* connections of user 1 come, beat and go while the clock runs
PresenceNext ==
    \/ \E k \in Conns, tok \in {0, 1} : Connect(k, tok)
    \/ \E k \in Conns : HsVerify(k)
    \/ \E k \in Conns : HsPresence(k)
    \/ \E k \in Conns : HsAck(k)
    \/ \E k \in Conns : Disconnect(k)
    \/ \E k \in Conns : DcLastSeen(k)
    \/ \E k \in Conns : DcOffline(k)
    \/ \E k \in Conns : Heartbeat(k)
    \/ Tick

SpecPresence == InitGateway /\ [][PresenceNext]_vars

\* one connection of user 1, over more than the life of a presence key
PresenceOneNext ==
    \/ Connect(1, 1)
    \/ HsVerify(1)
    \/ HsPresence(1)
    \/ HsAck(1)
    \/ Heartbeat(1)
    \/ Second

SpecPresenceOne == InitGateway /\ [][PresenceOneNext]_vars

\* handshakes and disconnects of two sockets, with and without failures of the
\* presence store and of the lastSeen update, while the clock runs
HandshakeNext ==
    \/ \E k \in Conns, tok \in Tokens : Connect(k, tok)
    \/ \E k \in Conns : HsVerify(k)
    \/ \E k \in Conns : HsPresence(k)
    \/ \E k \in Conns : HsAck(k)
    \/ \E k \in Conns : Disconnect(k)
    \/ \E k \in Conns : DcLastSeen(k)
    \/ \E k \in Conns : DcOffline(k)
    \/ GatewayFailNext
    \/ Tick

SpecHandshake == InitGateway /\ [][HandshakeNext]_vars

\* typing indicators: the sockets land on any instances, connect as any user, join the
\* room of conversation 1 and send typing_start / typing_stop
TypingNext ==
    \/ \E k \in Conns, tok \in Users : Connect(k, tok)
    \/ \E k \in Conns : HsVerify(k)
    \/ \E k \in Conns : HsPresence(k)
    \/ \E k \in Conns : HsAck(k)
    \/ \E k \in Conns : Disconnect(k)
    \/ \E k \in Conns : DcLastSeen(k)
    \/ \E k \in Conns : DcOffline(k)
    \/ \E k \in Conns : JoinConversation(k, 1)
    \/ \E k \in Conns, c \in {NULL} \cup ConvIds, ev \in {"typing_start", "typing_stop"} :
          Typing(k, c, ev)

InitTyping == \E at \in [Conns -> Instances] : GatewayOn(at)

SpecTyping == InitTyping /\ [][TypingNext]_vars

\* everything the gateway emits, side by side: socket 1 sends once more, socket 2
\* acknowledges and reads message 1, both sockets join, type and beat, socket 2 goes away,
\* and the bus fans out; the sockets are held by any instances
PublishNext ==
    \/ \E k \in Conns : JoinConversation(k, 1)
    \/ LiveSend
    \/ \E i \in Instances : BusDeliver(i)
    \/ \E i \in Instances : \E p \in inflight[i] : ConsumerEmit(i, p)
    \/ StartDelivered(2, 1, 1)
    \/ \E t \in tasks : DeliveredWrite(t)
    \/ \E t \in tasks : DeliveredEmit(t)
    \/ \E t \in tasks : ReceiptFail(t)
    \/ StartRead(2, 1, {1})
    \/ \E t \in tasks : ReadWrite(t)
    \/ \E t \in tasks : ReadEmit(t)
    \/ \E k \in Conns, ev \in {"typing_start", "typing_stop"} : Typing(k, 1, ev)
    \/ \E k \in Conns : Heartbeat(k)
    \/ Disconnect(2)
    \/ DcLastSeen(2)
    \/ DcOffline(2)

InitPublish == \E at \in [Conns -> Instances] : FrameOn(at)

SpecPublish == InitPublish /\ [][PublishNext]_vars

\* upload URL requests of the users for image files under every name of up to
\* MaxNameLen characters, among them path separators of both kinds, dots and blanks
NameChars == {"a", ".", "/", "\\", " "}
FileNames == UNION {[1..n -> NameChars] : n \in 0..MaxNameLen}

PathNext ==
    \/ /\ tasks = {} /\ signedUrls = << >>
       /\ \E u \in Users, name \in FileNames : PostUploadUrl(u, 1, name, "image/jpeg", 1)
    \/ \E t \in tasks : UploadSign(t)
    \/ Tick

SpecPath == ChatState(FALSE) /\ [][PathNext]_vars

\* ================================================================ claims
InboxIds(k) == {inbox[k][i].id : i \in 1..Len(inbox[k])}
InRoom(k, c) == Open(k) /\ c \in rooms[k]
\* message m is published and the consumer of instance i has not handled its tuple yet
Awaited(m, i) ==
    /\ \E n \in 1..Len(published) : published[n].messageId = m
    /\ m \notin consumed[i]
\* the status rows of message m that belong to user u
RowsOf(m, u) == {i \in StatusRows(m) : statuses[i].userId = u}

\* C1: every committed message has exactly one status row for each member of its
\* conversation and none for anybody else, so its row count is the member count;
\* every status row belongs to a committed message.
C1_OneStatusPerMember ==
    /\ \A m \in 1..Len(messages) :
          /\ \A u \in Users :
                Cardinality(RowsOf(m, u)) =
                    IF u \in MemberIds(messages[m].conversationId) THEN 1 ELSE 0
          /\ Cardinality(StatusRows(m)) = Cardinality(MemberIds(messages[m].conversationId))
    /\ \A i \in 1..Len(statuses) : MsgExists(statuses[i].messageId)

\* two messages are committed in the group, each with its three rows, and the second
\* send has just been answered
C1_Witness ==
    /\ Len(messages) = 2
    /\ conversations[1].isGroup
    /\ \A m \in 1..2 : Cardinality(StatusRows(m)) = 3
    /\ reply.success

\* C2: in every step, a status row whose deliveredAt is non-null keeps that value and
\* a status row whose readAt is non-null keeps that value.
C2_ReceiptsWriteOnce ==
    [][\A i \in 1..Len(statuses) :
          /\ statuses[i].deliveredAt # NULL
                => statuses'[i].deliveredAt = statuses[i].deliveredAt
          /\ statuses[i].readAt # NULL => statuses'[i].readAt = statuses[i].readAt]_vars

\* a message_delivered is acknowledged with a timestamp that is not the one stored:
\* the row was delivered before, and a read batch has stamped both messages
C2_Witness ==
    /\ emitted.event = "message_delivered"
    /\ \E i \in 1..Len(statuses) :
          /\ statuses[i].messageId \in emitted.messageIds
          /\ statuses[i].userId = emitted.userId
          /\ statuses[i].deliveredAt # NULL
          /\ statuses[i].deliveredAt # emitted.at
    /\ \A m \in 1..2 : \E i \in RowsOf(m, 2) : statuses[i].readAt # NULL

\* C3: every status row that has been read was delivered no later than it was read.
C3_DeliveredBeforeRead ==
    \A i \in 1..Len(statuses) :
        statuses[i].readAt # NULL => statuses[i].deliveredAt <= statuses[i].readAt

\* C4: every status row that has been read has been delivered.
C4_ReadImpliesDelivered ==
    \A i \in 1..Len(statuses) :
        statuses[i].readAt # NULL => statuses[i].deliveredAt # NULL

\* user 2 has read the message of user 1 without a delivery before it: the read
\* transaction has set both fields, to the same timestamp
C4_Witness ==
    /\ emitted.event = "message_read" /\ 1 \in emitted.messageIds
    /\ \E i \in RowsOf(1, 2) :
          /\ statuses[i].readAt = emitted.at
          /\ statuses[i].deliveredAt = emitted.at

\* C5: every 1-to-1 conversation has exactly two member rows, of two distinct users,
\* and no two 1-to-1 conversations have the same pair of members.
C5_OneDirectPerPair ==
    /\ \A c \in 1..Len(conversations) :
          ~conversations[c].isGroup =>
              /\ Cardinality({r \in members : r.conversationId = c}) = 2
              /\ Cardinality(MemberIds(c)) = 2
    /\ \A c, d \in 1..Len(conversations) :
          (~conversations[c].isGroup /\ ~conversations[d].isGroup
             /\ MemberIds(c) = MemberIds(d)) => c = d

\* C6: every committed message has exactly one status row of its sender, and that
\* row's deliveredAt is the message's createdAt.
C6_SenderDeliveredAtCreation ==
    \A m \in 1..Len(messages) :
        /\ Cardinality(RowsOf(m, messages[m].senderId)) = 1
        /\ \A i \in RowsOf(m, messages[m].senderId) :
              statuses[i].deliveredAt = messages[m].createdAt

\* C7: when a connection has received two messages of one sender in one conversation,
\* it has received them in the order their send_message events were sent.
C7_SendOrderKept ==
    \A k \in Conns : \A i, j \in 1..Len(inbox[k]) :
        LET a == inbox[k][i].id
            b == inbox[k][j].id
        IN (/\ messages[a].senderId = messages[b].senderId
            /\ messages[a].conversationId = messages[b].conversationId
            /\ sendOrder[a] < sendOrder[b]) => i < j

\* C8: a connection that is in room conversation:{c} when a message of c is published,
\* or that joins before the consumer of its instance has handled the tuple, and that
\* stays in the room, eventually receives message_received for that message, carrying
\* the sender's profile; this holds on the sender's instance and on every other one.
C8_EventuallyReceived ==
    \A m \in MsgIds : \A k \in Conns :
        (Awaited(m, InstanceOf(k)) /\ InRoom(k, 1))
            ~> (\/ ~InRoom(k, 1)
                \/ \E n \in 1..Len(inbox[k]) :
                      /\ inbox[k][n].id = m
                      /\ inbox[k][n].sender.id = messages[m].senderId)

\* a connection on the other instance than the sender's has received a message whose
\* send_message has just replied success
C8_Witness ==
    /\ reply.success /\ reply.event = "send_message"
    /\ \E k \in Conns : InstanceOf(k) # InstanceOf(reply.conn) /\ reply.id \in InboxIds(k)

\* C9: every connection in room conversation:{c} is authenticated as a member of c, and
\* an event of conversation c is emitted only to connections of members of c.
C9_RoomsHoldMembers ==
    /\ \A k \in Conns : \A c \in rooms[k] :
          Authenticated(k) /\ validateMembership(c, conns[k].userId)
    /\ emitted.conversationId # 0 =>
          \A k \in emitted.to :
              Authenticated(k) /\ validateMembership(emitted.conversationId, conns[k].userId)

\* a join of a non-member has just been refused while a member's connection is in the
\* room
C9_Witness ==
    /\ reply.event = "join_conversation" /\ ~reply.success
    /\ reply.error = "You are not a member of this conversation"
    /\ conns[reply.conn].userId = 3
    /\ \E k \in Conns : 1 \in rooms[k]

\* C10: every tuple published names a committed message that has a status row for each
\* member of its conversation, and carries that message's conversationId and senderId.
C10_PublishedIsCommitted ==
    \A n \in 1..Len(published) :
        LET p == published[n] IN
        /\ MsgExists(p.messageId)
        /\ messages[p.messageId].conversationId = p.conversationId
        /\ messages[p.messageId].senderId = p.senderId
        /\ {statuses[i].userId : i \in StatusRows(p.messageId)} = MemberIds(p.conversationId)

\* the tuples of two messages are published, the second one a message of user 2
C10_Witness ==
    /\ Len(published) = 2
    /\ published[2].senderId = 2
    /\ published[2].messageId = 2

\* C11: any two message_received payloads for the same message id, received by any
\* connections on any instances, are equal (content, type, createdAt, sender profile).
C11_SamePayloadEverywhere ==
    \A k1, k2 \in Conns : \A i \in 1..Len(inbox[k1]) : \A j \in 1..Len(inbox[k2]) :
        inbox[k1][i].id = inbox[k2][j].id => inbox[k1][i] = inbox[k2][j]

\* C12: a persisted text message has content and no media path; a persisted image or
\* video message has a media path, the one its send request carried.
C12_MediaInvariant ==
    \A m \in 1..Len(messages) :
        /\ messages[m].type = "text" =>
              messages[m].content # "" /\ messages[m].mediaUrl = ""
        /\ messages[m].type \in {"image", "video"} =>
              messages[m].mediaUrl # "" /\ messages[m].mediaUrl = supplied[m]

\* C13: a step changes an existing status row of user u only when it is the database
\* write of a message_delivered or message_read that arrived on a connection
\* authenticated as u and that names the row's message; no other step changes a row.
C13_OnlyOwnReceiptsWrite ==
    [][/\ Len(statuses') >= Len(statuses)
       /\ \A i \in 1..Len(statuses) :
             statuses'[i] # statuses[i] =>
                 \E t \in tasks :
                    /\ t.kind \in {"delivered", "read"} /\ t.pc = "write"
                    /\ t.user = statuses[i].userId
                    /\ conns[t.conn].userId = t.user
                    /\ statuses[i].messageId \in t.mids
                    /\ [t EXCEPT !.pc = "emit"] \in tasks']_vars

\* user 2 has read message 1 and has received message 2 over the bus, user 1 has just
\* acknowledged message 1 on its own socket, and the rows of user 3 are untouched
C13_Witness ==
    /\ emitted.event = "message_delivered" /\ emitted.userId = 1 /\ 1 \in emitted.messageIds
    /\ 2 \in InboxIds(2)
    /\ \E i \in RowsOf(1, 2) : statuses[i].readAt # NULL
    /\ \A m \in 1..2 : \E i \in RowsOf(m, 3) :
          statuses[i].deliveredAt = NULL /\ statuses[i].readAt = NULL

\* C14: a connection whose credential is missing or does not verify to a persisted user
\* never has a principal; no step of its handshake changes a presence key or emits
\* connected; and once its handshake is over it is closed.
C14_RejectedHandshake ==
    [][\A k \in Conns :
          (conns'[k].state # "idle" /\ conns'[k].token \notin Users) =>
              /\ conns'[k].userId = NULL
              /\ conns'[k] # conns[k] => presence' = presence /\ emitted'.event # "connected"
              /\ conns'[k].hs = "done" => conns'[k].state = "closed"]_vars

\* a connection with a token that does not verify has been closed while another
\* connection is authenticated and its user online
C14_Witness ==
    \E k, j \in Conns :
        /\ conns[k].token = NumUsers + 1 /\ conns[k].state = "closed" /\ conns[k].hs = "done"
        /\ Open(j) /\ Authenticated(j) /\ conns[j].hs = "done"
        /\ presence[conns[j].userId] > 0

\* C15: a reply to an inbound event on a connection without a principal is the
\* unauthenticated error, and the step that sends it changes neither the store, nor a
\* presence key, nor the bus, nor a room, nor the connection.
C15_UnauthenticatedRefused ==
    [][(/\ reply'.conn # 0
        /\ reply'.event \in {"join_conversation", "leave_conversation", "send_message",
                             "typing_start", "typing_stop", "message_delivered",
                             "message_read", "heartbeat", "ping"}
        /\ conns[reply'.conn].userId = NULL)
          => /\ ~reply'.success
             /\ reply'.error = "Not authenticated"
             /\ UNCHANGED <<storeVars, gatewayVars, busVars>>
             /\ Open(reply'.conn)]_vars

\* C16: join_conversation and leave_conversation succeed only for a member of the
\* conversation named; typing and receipt events are broadcast only on behalf of a
\* member; only a member's receipt reaches the database write.
C16_NonMemberRefused ==
    /\ (reply.success /\ reply.event \in {"join_conversation", "leave_conversation"})
          => validateMembership(reply.id, conns[reply.conn].userId)
    /\ emitted.event \in {"user_typing", "user_typing_stop", "message_delivered", "message_read"}
          => validateMembership(emitted.conversationId, emitted.userId)
    /\ \A t \in tasks : t.kind \in {"delivered", "read"} => validateMembership(t.conv, t.user)

\* C17: when the load of a send returns, a conversation that does not exist gives
\* not-found and a sender who is not a member gives forbidden, and only otherwise
\* does the send go on; a send refused this way changes neither the store nor the bus;
\* every message stored was sent by a member of its conversation.
C17_RefusedSendWritesNothing ==
    /\ [][\A t \in tasks :
             (t.kind = "send" /\ t.pc = "load" /\ t \notin tasks') =>
                 IF ~ConvExists(t.conv)
                 THEN /\ reply' = ErrReply(t.conn, SendEvent(t), "Conversation not found")
                      /\ UNCHANGED <<storeVars, busVars>>
                 ELSE IF t.user \notin MemberIds(t.conv)
                 THEN /\ reply' = ErrReply(t.conn, SendEvent(t),
                                           "You are not a member of this conversation")
                      /\ UNCHANGED <<storeVars, busVars>>
                 ELSE \E n \in tasks' : n.kind = "send" /\ n.seq = t.seq /\ n.pc = "insert"]_vars
    /\ [](\A m \in 1..Len(messages) :
             /\ ConvExists(messages[m].conversationId)
             /\ messages[m].senderId \in MemberIds(messages[m].conversationId))

\* a send of a non-member has just been refused, after a member's message was stored
\* and published
C17_Witness ==
    /\ reply.error = "You are not a member of this conversation"
    /\ reply.event = "POST /messages"
    /\ Len(messages) = 1 /\ Len(published) = 1

\* C18: a send whose transaction fails answers with an error and leaves the store and
\* the bus as they were; the store changes only by a whole send at once: one message
\* row, a status row for each member, and the conversation's updatedAt.
C18_SendIsAtomic ==
    [][/\ reply'.error = "transaction failed" =>
             ~reply'.success /\ UNCHANGED <<storeVars, busVars>>
       /\ storeVars' # storeVars =>
             LET id == Len(messages) + 1 IN
             /\ Len(messages') = id
             /\ \A m \in 1..Len(messages) : messages'[m] = messages[m]
             /\ Len(statuses') = Len(statuses)
                                   + Cardinality(MemberIds(messages'[id].conversationId))
             /\ \A i \in 1..Len(statuses') : i > Len(statuses) => statuses'[i].messageId = id
             /\ \A c \in 1..Len(conversations) :
                   c # messages'[id].conversationId => conversations'[c] = conversations[c]
             /\ reply'.error = ""]_vars

\* the second send has just failed in its transaction; the first one is stored whole
C18_Witness ==
    /\ reply.error = "transaction failed"
    /\ Len(messages) = 1
    /\ Len(statuses) = Cardinality(MemberIds(1))
    /\ sendSeq = 2 /\ tasks = {}

\* C19: a user with an open, authenticated connection whose last heartbeat (or handshake)
\* is at most 59 seconds old has a presence key, whatever the user's other connections do.
C19_OnlineWhileBeating ==
    \A k \in Conns :
        (Open(k) /\ Authenticated(k) /\ conns[k].hs = "done" /\ conns[k].idle <= 59)
            => presence[conns[k].userId] > 0

\* C20: with one connection, a heartbeat that finds the presence key alive sets its
\* remaining life to 60 seconds; a key with more than a second left is still there a
\* second later, so it lives through second 59 after its last write; a live key has
\* 60 seconds less the time since the last heartbeat or handshake left; and after 61
\* seconds without heartbeat or handshake there is no key.
C20_PresenceTtl ==
    /\ [][/\ (reply'.event = "heartbeat" /\ reply'.success /\ presence[1] > 0)
                => presence'[1] = PRESENCE_TTL
          /\ (now' = now + 1 /\ presence[1] > 1) => presence'[1] = presence[1] - 1]_vars
    /\ [](conns[1].hs \in {"ack", "done"} =>
             /\ presence[1] > 0 => presence[1] = PRESENCE_TTL - conns[1].idle
             /\ conns[1].idle >= 61 => presence[1] = 0)

\* the connection is open and has been silent for 61 seconds: the key is gone
C20_Witness ==
    /\ Open(1) /\ conns[1].hs = "done"
    /\ conns[1].idle = 61
    /\ presence[1] = 0

\* C22: the updatedAt of a conversation is not earlier than the createdAt of any
\* message committed in it.
C22_UpdatedAtCoversMessages ==
    \A m \in 1..Len(messages) :
        conversations[messages[m].conversationId].updatedAt >= messages[m].createdAt

\* the ids of a batch that belong to conversation c
BelongTo(batch, c) ==
    {m \in batch : m \in 1..Len(messages) /\ messages[m].conversationId = c}

\* the row a message_read of user u at time ts leaves for row r when r is u's row of a
\* message of the set valid, and r itself otherwise
AfterRead(r, valid, u, ts) ==
    IF r.messageId \in valid /\ r.userId = u
    THEN [r EXCEPT !.deliveredAt = IF r.deliveredAt = NULL THEN ts ELSE r.deliveredAt,
                   !.readAt = IF r.readAt = NULL THEN ts ELSE r.readAt]
    ELSE r

\* C21: a message_read of member u for conversation c with batch B, handled at time t,
\* sets readAt and deliveredAt to t where they are null on u's rows of the messages of B
\* that belong to c, keeps every value already set, leaves every other row (those of
\* messages of B outside c included) unchanged, and emits one message_read event to the
\* room of c that lists exactly the ids of B that belong to c.
C21_ReadBatch ==
    [][\A t \in tasks \ tasks' :
          t.kind = "read" =>
            /\ t.pc = "write" /\ [t EXCEPT !.pc = "emit"] \in tasks' =>
                 /\ Len(statuses') = Len(statuses)
                 /\ \A i \in 1..Len(statuses) :
                        statuses'[i] = AfterRead(statuses[i], BelongTo(t.batch, t.conv),
                                                 t.user, t.now)
                 /\ emitted' = NoEmit
            /\ t.pc = "emit" =>
                 /\ emitted' = [event |-> "message_read", conversationId |-> t.conv,
                                to |-> RoomOn(InstanceOf(t.conn), t.conv), userId |-> t.user,
                                messageIds |-> BelongTo(t.batch, t.conv), at |-> t.now]
                 /\ statuses' = statuses]_vars
    /\ [][emitted'.event = "message_read" /\ emitted' # emitted =>
            \E t \in tasks \ tasks' : t.kind = "read" /\ t.pc = "emit"]_vars

\* user 2 read the batch {1, 2} in conversation 1 at time 2 after message 1 had been
\* delivered at time 1: the row of message 1 keeps deliveredAt 1 and gets readAt 2, the
\* row of message 2 (conversation 2) is untouched, and the event lists message 1 only
C21_Witness ==
    /\ emitted.event = "message_read" /\ emitted.conversationId = 1
    /\ emitted.messageIds = {1} /\ emitted.at = 2
    /\ \E i \in RowsOf(1, 2) : statuses[i].deliveredAt = 1 /\ statuses[i].readAt = 2
    /\ \E i \in RowsOf(2, 2) : statuses[i].deliveredAt = NULL /\ statuses[i].readAt = NULL

\* C29: an emitted message_delivered receipt carries the deliveredAt that the store
\* holds on the status row of its message and user.
C29_ReceiptMatchesStore ==
    emitted.event = "message_delivered" =>
        \A m \in emitted.messageIds :
            \E i \in 1..Len(statuses) :
                /\ statuses[i].messageId = m /\ statuses[i].userId = emitted.userId
                /\ statuses[i].deliveredAt = emitted.at

\* C30: a message_delivered or message_read event emitted for conversation c names
\* only messages that belong to c.
C30_ReceiptsNameOwnMessages ==
    emitted.event \in {"message_delivered", "message_read"} =>
        \A m \in emitted.messageIds :
            m \in 1..Len(messages) /\ messages[m].conversationId = emitted.conversationId

\* the 1-to-1 conversations whose members are exactly a and b
DirectsOf(a, b) ==
    {c \in 1..Len(conversations) : ~conversations[c].isGroup /\ MemberIds(c) = {a, b}}

\* the create requests whose existence check has just run
LookedUp == {t \in tasks \ tasks' : t.kind = "create" /\ t.pc = "lookup"}

\* C23: when a 1-to-1 conversation of two users exists, a later create by either of them
\* that names the other with isGroup = false returns the id of an existing conversation
\* of the two and inserts no conversation and no member row.
C23_DirectCreateIdempotent ==
    [][\A t \in LookedUp :
          DirectsOf(t.user, t.userIds[1]) # {} =>
              /\ reply'.success /\ reply'.event = "create"
              /\ reply'.id \in DirectsOf(t.user, t.userIds[1])
              /\ conversations' = conversations /\ members' = members
              /\ tasks' = tasks \ {t}]_vars

\* conversation 1 is handed back to a create although another 1-to-1 conversation, of a
\* different pair, has been made since
C23_Witness ==
    /\ Len(conversations) = 2
    /\ ~conversations[1].isGroup /\ ~conversations[2].isGroup
    /\ MemberIds(1) # MemberIds(2)
    /\ reply.success /\ reply.event = "create" /\ reply.id = 1

\* C24: the existence check of a 1-to-1 create hands back a conversation only if it is
\* not a group and its member rows are exactly the caller and the other user.
C24_LookupReturnsOnlyThePair ==
    [][\A t \in LookedUp :
          reply'.success =>
              /\ reply'.id \in 1..Len(conversations)
              /\ ~conversations[reply'.id].isGroup
              /\ MemberIds(reply'.id) = {t.user, t.userIds[1]}
              /\ Cardinality({r \in members : r.conversationId = reply'.id}) = 2]_vars

\* the 1-to-1 conversation 1 is handed back while a group holding both users exists
C24_Witness ==
    /\ Len(conversations) = 2
    /\ ~conversations[1].isGroup /\ conversations[2].isGroup
    /\ MemberIds(1) \subseteq MemberIds(2)
    /\ reply.success /\ reply.event = "create" /\ reply.id = 1

\* C25: every group has at least three distinct members, one row per member, exactly
\* one admin, who is the creator, and role member on every other row; a group create
\* whose creator and userIds name fewer than three distinct users creates nothing.
C25_GroupShape ==
    /\ [](\A c \in 1..Len(conversations) :
            conversations[c].isGroup =>
                LET rows == {r \in members : r.conversationId = c} IN
                /\ Cardinality(MemberIds(c)) >= 3
                /\ Cardinality(rows) = Cardinality(MemberIds(c))
                /\ Cardinality({r \in rows : r.role = "admin"}) = 1
                /\ \A r \in rows : r.role \in {"admin", "member"})
    /\ [][\A t \in tasks \ tasks' :
            t.kind = "create" /\ t.isGroup =>
                /\ Len(conversations') > Len(conversations) =>
                      [conversationId |-> Len(conversations'), userId |-> t.user,
                       role |-> "admin"] \in members'
                /\ Cardinality({t.user} \cup Range(t.userIds)) < 3 =>
                      conversations' = conversations /\ members' = members]_vars

\* a group exists, and a later group create that lists its creator was refused by the
\* unique key
C25_Witness ==
    /\ \E c \in 1..Len(conversations) : conversations[c].isGroup
    /\ reply.event = "create" /\ reply.error = "Unique constraint failed"

\* the messages of conversation c
MessagesOf(c) == {m \in 1..Len(messages) : messages[m].conversationId = c}

\* C26: a member who reads a history of messages with distinct createdAt page by page,
\* following nextCursor until hasMore is false, needs at most n / L + 1 calls, is never
\* left without a next call, and has then got every message exactly once in strictly
\* descending createdAt order; a page has hasMore = true and nextCursor = the createdAt
\* of its last row exactly when it holds L rows, and hasMore = false with no cursor
\* otherwise.
C26_PaginationComplete ==
    /\ [](\A t \in tasks :
            t.kind = "pager" =>
                /\ \A i, j \in 1..Len(t.seen) :
                      i < j => messages[t.seen[i]].createdAt > messages[t.seen[j]].createdAt
                /\ t.calls <= (Cardinality(MessagesOf(t.conv)) \div t.limit) + 1
                /\ t.pc = "done" =>
                      /\ Range(t.seen) = MessagesOf(t.conv)
                      /\ Len(t.seen) = Cardinality(MessagesOf(t.conv))
                /\ t.pc = "more" => ENABLED PagerStep(t))
    /\ [][\A t \in tasks \ tasks' :
            (t.kind = "pager" /\ reply'.success) =>
                /\ reply'.hasMore = (Len(reply'.messages) = t.limit)
                /\ reply'.nextCursor =
                      (IF Len(reply'.messages) = t.limit
                       THEN toISOString(messages[reply'.messages[t.limit]].createdAt)
                       ELSE NoCursor)
                /\ Len(reply'.messages) <= t.limit]_vars

\* the history of ExampleMessages messages read with the default limit: a full page
\* of 20 and then the last 5, after which the client stops
C26_Witness ==
    /\ Len(messages) = ExampleMessages
    /\ \E t \in tasks :
          /\ t.kind = "pager" /\ t.limit = DEFAULT_LIMIT /\ t.pc = "done" /\ t.calls = 2
          /\ Len(t.seen) = ExampleMessages
    /\ reply.success /\ Len(reply.messages) = ExampleMessages - DEFAULT_LIMIT
    /\ ~reply.hasMore /\ reply.nextCursor = NoCursor

\* the size limit of a mime type, -1 when the type is not allowed
LimitOf(mimeType) ==
    IF mimeType \in {"image/jpeg", "image/png", "image/gif", "image/webp"} THEN 5242880
    ELSE IF mimeType \in {"video/mp4", "video/quicktime", "video/webm"} THEN 20971520
    ELSE -1

\* C27: a member's requestUploadUrl asks the blob store for a signed URL exactly when
\* the size is at most the limit of the media type of its mime type (5,242,880 bytes
\* for an image, 20,971,520 for a video), so a file of exactly the limit is accepted
\* and one byte more is refused; a refusal is a bad-request reply and leaves the blob
\* store unasked, and a URL is only ever asked for such a request.
C27_UploadSizeLimits ==
    /\ [][\A t \in tasks \ tasks' :
            t.kind = "upload" =>
                /\ (signedUrls' # signedUrls) <=>
                      (LimitOf(t.mimeType) >= 0 /\ t.fileSize <= LimitOf(t.mimeType))
                /\ signedUrls' = signedUrls =>
                      /\ ~reply'.success
                      /\ reply'.error \in {"Unsupported file type",
                                           "Image size exceeds maximum allowed size of 5MB",
                                           "Video size exceeds maximum allowed size of 20MB"}
                /\ signedUrls' # signedUrls =>
                      /\ Len(signedUrls') = Len(signedUrls) + 1
                      /\ signedUrls'[Len(signedUrls')].fileSize = t.fileSize
                      /\ signedUrls'[Len(signedUrls')].userId = t.user]_vars
    /\ [][signedUrls' # signedUrls => \E t \in tasks \ tasks' : t.kind = "upload"]_vars
    /\ [][reply'.event = "upload-url" /\ reply'.success => signedUrls' # signedUrls]_vars

\* an image of exactly 5,242,880 bytes and a video of exactly 20,971,520 bytes got
\* their URLs, and a request one byte over a limit has just been refused
C27_Witness ==
    /\ Len(signedUrls) = 2
    /\ \E i \in 1..2 : signedUrls[i].mediaType = "image" /\ signedUrls[i].fileSize = 5242880
    /\ \E i \in 1..2 : signedUrls[i].mediaType = "video" /\ signedUrls[i].fileSize = 20971520
    /\ reply.error = "Image size exceeds maximum allowed size of 5MB"
    /\ tasks = {}

\* C28: a successful send_message reply names a message that is committed and whose
\* tuple has been published, and once the tuple is published the reply can be given
\* at once, whatever the consumers have or have not fanned out.
C28_ReplyAfterPersistAndPublish ==
    /\ (reply.event = "send_message" /\ reply.success) =>
          /\ reply.id \in 1..Len(messages)
          /\ \E i \in 1..Len(published) :
                /\ published[i].messageId = reply.id
                /\ published[i].conversationId = messages[reply.id].conversationId
    /\ \A t \in tasks : (t.kind = "send" /\ t.pc = "reply") => ENABLED SendReply(t)

\* the sender has its acknowledgement while no instance has handled the tuple yet
C28_Witness ==
    /\ reply.event = "send_message" /\ reply.success
    /\ \A i \in Instances : reply.id \notin consumed[i] /\ bus[i] # << >>

\* C31: when the handshake handler and the disconnect handler of a connection that
\* got a principal have both finished, and the user has no other connection, the
\* user's presence key is absent.
C31_OfflineAfterDisconnect ==
    \A k \in Conns :
        (/\ conns[k].hs = "done" /\ conns[k].dc = "done"
         /\ conns[k].userId # NULL
         /\ \A j \in Conns \ {k} : conns[j].token # conns[k].token)
            => presence[conns[k].userId] = 0

\* C38: connected is emitted only by a handshake that has attached its principal and
\* written the presence key with a 60-second TTL; it goes to that connection and carries
\* the subject of its verified credential; a handshake whose presence write fails closes
\* the connection and emits nothing.
C38_ConnectedAfterPresence ==
    /\ [][emitted'.event = "connected" /\ emitted' # emitted =>
            \E k \in Conns :
                /\ conns[k].hs = "ack" /\ conns'[k].hs = "done"
                /\ emitted'.to \subseteq {k}
                /\ Open(k) => emitted'.to = {k}
                /\ emitted'.userId = conns[k].userId
                /\ conns[k].userId = validateToken(conns[k].token)
                /\ conns[k].userId # NULL]_vars
    /\ [][\A k \in Conns :
            /\ (conns'[k].hs = "ack" /\ conns[k].hs # "ack") =>
                  /\ conns[k].hs = "presence"
                  /\ conns[k].userId # NULL /\ conns'[k].userId = conns[k].userId
                  /\ presence'[conns[k].userId] = PRESENCE_TTL
            /\ (conns[k].hs = "presence" /\ conns'[k].hs = "done") =>
                  /\ conns'[k].state = "closed"
                  /\ emitted'.event # "connected"
                  /\ presence' = presence]_vars

\* connection 1 has just been acknowledged with its user's key freshly written, while
\* the handshake of connection 2 ended closed, with a principal, on a failed presence write
C38_Witness ==
    /\ emitted.event = "connected" /\ emitted.to = {1}
    /\ emitted.userId = conns[1].token
    /\ presence[emitted.userId] = PRESENCE_TTL
    /\ conns[2].hs = "done" /\ conns[2].state = "closed" /\ conns[2].userId # NULL
    /\ conns[2].userId # conns[1].userId /\ presence[conns[2].userId] = 0
    /\ users[conns[2].userId].lastSeen = NULL /\ conns[2].dc = "done"

\* C39: a heartbeat of an authenticated connection whose user's presence key is absent
\* replies ok and leaves the key absent; a key comes into being only by the presence
\* write of a handshake.
C39_HeartbeatNeverCreates ==
    /\ [][(reply'.event = "heartbeat" /\ reply'.success) =>
            /\ conns[reply'.conn].userId # NULL
            /\ presence[conns[reply'.conn].userId] = 0 => presence' = presence]_vars
    /\ [][\A u \in Users :
            (presence[u] = 0 /\ presence'[u] > 0) =>
                \E k \in Conns : /\ conns[k].hs = "presence" /\ conns'[k].hs = "ack"
                                 /\ conns[k].userId = u]_vars

\* an open, authenticated connection has just had its heartbeat answered and its
\* user's key is absent
C39_Witness ==
    /\ reply.event = "heartbeat" /\ reply.success
    /\ Open(reply.conn) /\ conns[reply.conn].hs = "done"
    /\ presence[conns[reply.conn].userId] = 0

\* C32: no step lowers the committed updatedAt of a conversation.
C32_UpdatedAtMonotonic ==
    [][\A c \in 1..Len(conversations) :
          conversations'[c].updatedAt >= conversations[c].updatedAt]_vars

\* what a dropped notification leaves behind: no event, no reply, and nothing changed
\* but the consumer's own bookkeeping
Dropped ==
    /\ emitted' = NoEmit
    /\ reply' = NoReply
    /\ UNCHANGED <<now, storeVars, tasks, gatewayVars, bus, published, inbox, signedUrls>>

\* C33: when the consumer of an instance finishes a tuple whose message is not in the
\* store, or whose re-read failed, it emits nothing, replies to nobody and changes no
\* state; every consumer step either is such a drop or emits message_received; the
\* other tuples it holds stay and can be handled, and the next tuple can be taken up.
C33_ConsumerDropsQuietly ==
    /\ [][\A i \in Instances : \A p \in inflight[i] \ inflight'[i] :
            /\ ~MsgExists(p.messageId) => Dropped
            /\ emitted'.event # "message_received" => Dropped
            /\ reply' = NoReply
            /\ inflight'[i] = inflight[i] \ {p}]_vars
    /\ [](\A i \in Instances :
            /\ \A q \in inflight[i] : ENABLED ConsumerEmit(i, q)
            /\ bus[i] # << >> => ENABLED BusDeliver(i))

\* instance 1 dropped a tuple that named no message and has now delivered a real one
C33_Witness ==
    /\ emitted.event = "message_received" /\ emitted.to # {}
    /\ \E m \in consumed[1] : ~MsgExists(m)
    /\ \E m \in consumed[1] : MsgExists(m) /\ m \in emitted.messageIds
    /\ 1 \in emitted.to

\* C34: when the publish of a send_message fails, the sender gets success:false while
\* the message and one status row per member are committed and stay so, nothing is
\* put on the bus, and message_received is only ever emitted for a published message;
\* committed messages are never removed or changed.
C34_PublishFailureKeepsMessage ==
    /\ [][\A t \in tasks \ tasks' :
            (t.kind = "send" /\ t.pc = "publish" /\ [t EXCEPT !.pc = "reply"] \notin tasks') =>
                /\ reply'.conn = t.conn /\ reply'.event = "send_message" /\ ~reply'.success
                /\ t.id \in 1..Len(messages')
                /\ messages'[t.id].senderId = t.user /\ messages'[t.id].conversationId = t.conv
                /\ {statuses'[i].userId : i \in {j \in 1..Len(statuses') :
                                                    statuses'[j].messageId = t.id}}
                      = MemberIds(t.conv)
                /\ UNCHANGED <<storeVars, bus, inflight, published, inbox>>
                /\ emitted' = NoEmit]_vars
    /\ [][/\ Len(messages') >= Len(messages)
          /\ \A m \in 1..Len(messages) : messages'[m] = messages[m]]_vars
    /\ [](emitted.event = "message_received" =>
            \A m \in emitted.messageIds : \E n \in 1..Len(published) : published[n].messageId = m)

\* the only send so far failed at its publish: its message and three status rows are
\* in the store, nothing was published and no socket got an event
C34_Witness ==
    /\ reply.event = "send_message" /\ reply.error = "publish failed"
    /\ Len(messages) = 1 /\ Len(statuses) = 3
    /\ published = << >>
    /\ \A k \in Conns : inbox[k] = << >>
    /\ \E k \in Conns : 1 \in rooms[k]

\* C35: POST /messages persists the same message row, status rows and updatedAt as
\* send_message (the commit writes the same function of the request whichever way it
\* came in), but a REST send ends at the commit: it publishes no tuple, only a socket
\* send's publish step appends to chat:messages, and message_received is emitted only
\* for published messages, so no connection receives one for a REST message
PublishedIds == {published[n].messageId : n \in 1..Len(published)}

C35_PostPersistsWithoutFanout ==
    /\ [][\A t \in tasks \ tasks' :
            (t.kind = "send" /\ t.pc = "commit" /\ Len(messages') > Len(messages)) =>
                /\ messages' = Append(messages,
                       [conversationId |-> t.conv, senderId |-> t.user,
                        content |-> t.body.content, type |-> t.body.type,
                        mediaUrl |-> "", createdAt |-> t.createdAt])
                /\ statuses' = statuses \o
                       [i \in 1..Len(t.members) |->
                           [messageId |-> Len(messages) + 1, userId |-> t.members[i],
                            deliveredAt |-> IF t.members[i] = t.user THEN t.deliveredAt ELSE NULL,
                            readAt |-> NULL]]
                /\ conversations' = [conversations EXCEPT ![t.conv].updatedAt = t.updatedAt]
                /\ t.via = "rest" =>
                       /\ tasks' = tasks \ {t}
                       /\ reply' = OkReply(0, "POST /messages", Len(messages'))
                       /\ UNCHANGED <<bus, inflight, published, inbox>>
                       /\ emitted' = NoEmit]_vars
    /\ [][published' # published =>
            \E t \in tasks \ tasks' :
                /\ t.kind = "send" /\ t.via = "ws" /\ t.pc = "publish"
                /\ Len(published') = Len(published) + 1
                /\ published'[Len(published')].messageId = t.id]_vars
    /\ [](\A t \in tasks :
            (t.kind = "send" /\ t.via = "rest") => t.pc \notin {"publish", "reply"})
    /\ [](/\ \A i \in Instances : \A p \in Range(bus[i]) \cup inflight[i] :
                p.messageId \in PublishedIds
          /\ emitted.event = "message_received" => emitted.messageIds \subseteq PublishedIds
          /\ \A k \in Conns : \A n \in 1..Len(inbox[k]) : inbox[k][n].id \in PublishedIds)

\* a REST message and a socket message are both stored, the REST send has just been
\* answered, and only the socket message was published and received
C35_Witness ==
    /\ reply.event = "POST /messages" /\ reply.success /\ reply.id = 2
    /\ Len(messages) = 2
    /\ PublishedIds = {1}
    /\ \E k \in Conns : Len(inbox[k]) = 1
    /\ conversations[1].updatedAt = 2
    /\ \A i \in Instances : consumed[i] = {1}

\* C37: typing_start / typing_stop sent by a member of conversation c emit user_typing /
\* user_typing_stop to the other open connections that are in room conversation:{c} on
\* the emitter's own instance and never to the emitter; a refused request emits nothing;
\* either way the step writes nothing to the store and publishes nothing
TypingEvents == {"typing_start", "typing_stop"}

C37_TypingReachesRoomPeers ==
    /\ [][\A k \in Conns :
            (reply'.conn = k /\ reply'.event \in TypingEvents) =>
                /\ UNCHANGED <<storeVars, bus, inflight, published, inbox, presence, rooms, conns>>
                /\ IF reply'.success
                   THEN /\ validateMembership(emitted'.conversationId, conns[k].userId)
                        /\ emitted'.event = IF reply'.event = "typing_start"
                                            THEN "user_typing" ELSE "user_typing_stop"
                        /\ emitted'.userId = conns[k].userId
                        /\ emitted'.to =
                              {j \in Conns \ {k} :
                                  /\ conns[j].state = "open"
                                  /\ emitted'.conversationId \in rooms[j]
                                  /\ conns[j].instance = conns[k].instance}
                   ELSE emitted' = NoEmit]_vars
    /\ [](emitted.event \in {"user_typing", "user_typing_stop"} =>
            reply.success /\ reply.event \in TypingEvents)

\* socket 1, itself in the room, has announced typing and socket 2, in the same room on
\* the same instance, is the one recipient
C37_Witness ==
    /\ reply.conn = 1 /\ reply.event = "typing_start" /\ reply.success
    /\ emitted.event = "user_typing" /\ emitted.to = {2}
    /\ 1 \in rooms[1] /\ 1 \in rooms[2]
    /\ conns[1].instance = conns[2].instance

\* C36: chat:messages gets a tuple only in the publish step of a send_message, exactly
\* one per successfully answered send and never two for one message; the steps that
\* emit message_delivered, message_read, user_typing or user_typing_stop publish nothing
\* and what they emit goes only to connections held by the instance of the socket whose
\* event was handled; the heartbeat and the steps that change a presence key publish
\* nothing and emit nothing
LocalEvents == {"message_delivered", "message_read", "user_typing", "user_typing_stop"}

C36_OnlySendPublishes ==
    /\ [][(published' # published \/ \E i \in Instances : Len(bus'[i]) > Len(bus[i])) =>
            \E t \in tasks \ tasks' :
                /\ t.kind = "send" /\ t.via = "ws" /\ t.pc = "publish"
                /\ [t EXCEPT !.pc = "reply"] \in tasks'
                /\ published' = Append(published,
                       [messageId |-> t.id, conversationId |-> t.conv, senderId |-> t.user])
                /\ \A i \in Instances :
                       bus'[i] = Append(bus[i],
                           [messageId |-> t.id, conversationId |-> t.conv, senderId |-> t.user])]_vars
    /\ [](/\ (reply.event = "send_message" /\ reply.success) =>
                Cardinality({n \in 1..Len(published) : published[n].messageId = reply.id}) = 1
          /\ \A n, m \in 1..Len(published) :
                published[n].messageId = published[m].messageId => n = m)
    /\ [][emitted'.event \in LocalEvents =>
            /\ UNCHANGED <<bus, inflight, published, inbox>>
            /\ \E k \in Conns :
                  /\ \/ \E t \in tasks \ tasks' : t.kind \in {"delivered", "read"} /\ t.conn = k
                     \/ reply'.conn = k /\ reply'.event \in TypingEvents
                  /\ emitted'.to \subseteq
                        {j \in Conns : conns[j].instance = conns[k].instance}]_vars
    /\ [][(reply'.event = "heartbeat" \/ presence' # presence) =>
            UNCHANGED <<bus, inflight, published, inbox>> /\ emitted' = NoEmit]_vars

\* socket 2 has acknowledged message 1 after socket 1's second message was published:
\* socket 1 sits in the same room on the other instance and is not among the recipients
C36_Witness ==
    /\ emitted.event = "message_delivered" /\ emitted.to = {2}
    /\ 1 \in rooms[1] /\ conns[1].state = "open"
    /\ conns[1].instance # conns[2].instance
    /\ Len(published) = 1
    /\ published[1].messageId = 2

\* C40: whatever fileName was sent, the path handed to the blob store is
\* conversations/{conversationId}/{userId}_{epochMillis}_{name}, where every character
\* of name is one of [A-Za-z0-9._-], none a path separator of either kind, so the path
\* holds exactly the two "/" of its prefix
C40_PathHasTwoSeparators ==
    \A n \in 1..Len(signedUrls) :
        LET p == signedUrls[n].path
            name == SubSeq(p, 9, Len(p)) IN
        /\ Len(p) >= 8
        /\ SubSeq(p, 1, 8) = <<"conversations", "/", ToString(signedUrls[n].conversationId), "/",
                               ToString(signedUrls[n].userId), "_",
                               ToString(signedUrls[n].at), "_">>
        /\ Len(name) > 0 /\ Len(name) <= Len(signedUrls[n].fileName)
        /\ \A i \in 1..Len(name) : name[i] \in {"a", "Z", "7", ".", "_", "-"}
        /\ Cardinality({i \in 1..Len(p) : p[i] \in {"/", "\\"}}) = 2

\* a URL was signed for the name "../": its base name is empty, so the whole name was
\* kept and its separator replaced
C40_Witness ==
    /\ Len(signedUrls) = 1
    /\ signedUrls[1].fileName = <<".", ".", "/">>
    /\ SubSeq(signedUrls[1].path, 9, Len(signedUrls[1].path)) = <<".", ".", "_">>
    /\ reply.success

====
